---------------------------- MODULE Spec2Model ----------------------------
(***************************************************************************)
(* A model of the weewx-rtldavis driver (bin/user/rtldavis.py): the frame  *)
(* parser and payload decoder, the read loop of the driver                 *)
(* (genLoopPackets), the rain counter and the link quality statistics.     *)
(*                                                                         *)
(* Conventions.                                                            *)
(*  - A Python dict is a function whose domain is the set of its keys      *)
(*    (a TLA+ record); d1 @@ d2 is "d2 updated with d1".                   *)
(*  - None is the dict  None == [None |-> TRUE], that no decoded dict      *)
(*    equals (no decoded dict has the key "None").                         *)
(*  - Floating point values are kept exact: a value  v  that the code      *)
(*    computes as raw / c or raw * c is stored as the integer raw, the     *)
(*    unit being named where the key is set; a quotient of two varying     *)
(*    integers is a reduced fraction <<num, den>>.                         *)
(*  - Time is the integer wall clock  now  (int(time.time())), in seconds. *)
(*  - The Python semantics followed is that of Python 3 (/ is the true     *)
(*    division, // the floor division).  Lines 937-938 of the driver are   *)
(*    indented with tabs, which Python 3 rejects (TabError) and Python 2   *)
(*    reads as nested in the  if  of line 935: they are read as nested;    *)
(*    they only log.                                                       *)
(***************************************************************************)
EXTENDS Integers, Sequences, FiniteSets, TLC

-----------------------------------------------------------------------------
(* Integer helpers: the bit operations of Python on naturals.  An          *)
(* operator whose argument is used more than once binds its value first,   *)
(* as  CHOOSE y \in {F(x) : x \in {e}} : TRUE,  which is F(e) with e        *)
(* evaluated once.                                                         *)

RECURSIVE bit_and(_, _)
bit_and(a, b) ==
  IF a = 0 \/ b = 0 THEN 0
  ELSE (IF a % 2 = 1 /\ b % 2 = 1 THEN 1 ELSE 0) + 2 * bit_and(a \div 2, b \div 2)

BitAnd(a, b) == CHOOSE y \in {bit_and(x[1], x[2]) : x \in {<<a, b>>}} : TRUE

RECURSIVE bit_xor(_, _)
bit_xor(a, b) ==
  IF a = 0 THEN b
  ELSE IF b = 0 THEN a
  ELSE ((a + b) % 2) + 2 * bit_xor(a \div 2, b \div 2)

BitXor(a, b) == CHOOSE y \in {bit_xor(x[1], x[2]) : x \in {<<a, b>>}} : TRUE

Shl(a, n) == a * (2 ^ n)
Shr(a, n) == a \div (2 ^ n)

Abs(x) == IF x < 0 THEN -x ELSE x

RECURSIVE GCD(_, _)
GCD(a, b) == IF b = 0 THEN a ELSE GCD(b, a % b)

(* The exact quotient n / d (d > 0) as a reduced fraction.                 *)
Frac(n, d) ==
  LET g == GCD(Abs(n), d) IN <<n \div g, d \div g>>

(* Python 3 round(): to the nearest integer, a tie to the even one.        *)
round(q) ==
  LET n == q[1]
      d == q[2]
      f == n \div d
      r == n % d
  IN IF 2 * r < d THEN f
     ELSE IF 2 * r > d THEN f + 1
     ELSE IF f % 2 = 0 THEN f ELSE f + 1

None == [None |-> TRUE]
EmptyDict == [k \in {} |-> 0]

-----------------------------------------------------------------------------
(* weewx.crc16.crc16: the CRC-CCITT (polynomial 0x1021, start value 0) of  *)
(* a sequence of bytes, by the table of the library.                       *)

(* _table: entry b + 1 is the CRC of the single byte b.                    *)
crc16_table ==
  <<
       0,  4129,  8258, 12387, 16516, 20645, 24774, 28903,
   33032, 37161, 41290, 45419, 49548, 53677, 57806, 61935,
    4657,   528, 12915,  8786, 21173, 17044, 29431, 25302,
   37689, 33560, 45947, 41818, 54205, 50076, 62463, 58334,
    9314, 13379,  1056,  5121, 25830, 29895, 17572, 21637,
   42346, 46411, 34088, 38153, 58862, 62927, 50604, 54669,
   13907,  9842,  5649,  1584, 30423, 26358, 22165, 18100,
   46939, 42874, 38681, 34616, 63455, 59390, 55197, 51132,
   18628, 22757, 26758, 30887,  2112,  6241, 10242, 14371,
   51660, 55789, 59790, 63919, 35144, 39273, 43274, 47403,
   23285, 19156, 31415, 27286,  6769,  2640, 14899, 10770,
   56317, 52188, 64447, 60318, 39801, 35672, 47931, 43802,
   27814, 31879, 19684, 23749, 11298, 15363,  3168,  7233,
   60846, 64911, 52716, 56781, 44330, 48395, 36200, 40265,
   32407, 28342, 24277, 20212, 15891, 11826,  7761,  3696,
   65439, 61374, 57309, 53244, 48923, 44858, 40793, 36728,
   37256, 33193, 45514, 41451, 53516, 49453, 61774, 57711,
    4224,   161, 12482,  8419, 20484, 16421, 28742, 24679,
   33721, 37784, 41979, 46042, 49981, 54044, 58239, 62302,
     689,  4752,  8947, 13010, 16949, 21012, 25207, 29270,
   46570, 42443, 38312, 34185, 62830, 58703, 54572, 50445,
   13538,  9411,  5280,  1153, 29798, 25671, 21540, 17413,
   42971, 47098, 34713, 38840, 59231, 63358, 50973, 55100,
    9939, 14066,  1681,  5808, 26199, 30326, 17941, 22068,
   55628, 51565, 63758, 59695, 39368, 35305, 47498, 43435,
   22596, 18533, 30726, 26663,  6336,  2273, 14466, 10403,
   52093, 56156, 60223, 64286, 35833, 39896, 43963, 48026,
   19061, 23124, 27191, 31254,  2801,  6864, 10931, 14994,
   64814, 60687, 56684, 52557, 48554, 44427, 40424, 36297,
   31782, 27655, 23652, 19525, 15522, 11395,  7392,  3265,
   61215, 65342, 53085, 57212, 44955, 49082, 36825, 40952,
   28183, 32310, 20053, 24180, 11923, 16050,  3793,  7920>>

(* (_table[ch ^ (crc_sum >> 8)] ^ (crc_sum << 8)) & 0xffff                 *)
crc16_step(crc_sum, ch) ==
  BitXor(crc16_table[BitXor(ch, crc_sum \div 256) + 1], (crc_sum * 256) % 65536)

crc16_byte(crc_sum, ch) ==
  CHOOSE y \in {crc16_step(x[1], x[2]) : x \in {<<crc_sum, ch>>}} : TRUE

(* reduce(..., byte_iter, 0)                                               *)
RECURSIVE crc16_from(_, _, _)
crc16_from(msg, i, crc_sum) ==
  IF i > Len(msg) THEN crc_sum
  ELSE crc16_from(msg, i + 1, crc16_byte(crc_sum, msg[i]))

crc16(msg) == crc16_from(msg, 1, 0)

(* PacketFactory._check_crc: TRUE when the check raises ValueError.        *)
_check_crc(msg) == crc16(msg) # 0

-----------------------------------------------------------------------------
(* calc_wind_speed_ec: the wind speed error correction table and the       *)
(* interpolation over it.  windtab[s + 1][a + 1] is the code's             *)
(* windtab[s][a].                                                          *)

windtab ==
  << <<0, 1, 4, 8, 12, 16, 20, 24, 28, 32, 36, 40, 44, 48, 52, 56, 60, 64, 68, 72, 76, 80, 84, 88, 92, 96, 100, 104, 108, 112, 116, 120, 124, 127, 128>>,
     <<1, 0, 0, 0, 0, 0, 0, 0, 0, 0, 0, 0, 0, 0, 0, 0, 0, 0, 0, 0, 0, 0, 0, 0, 0, 0, 0, 0, 0, 0, 0, 0, 0, 0, 0>>,
     <<2, 0, 0, 0, 0, 0, 0, 0, 0, 0, 0, 0, 0, 0, 0, 0, 0, 0, 0, 0, 0, 0, 0, 0, 0, 0, 0, 0, 0, 0, 0, 0, 0, 0, 0>>,
     <<3, 0, 0, 0, 0, 0, 0, 0, 0, 0, 0, 0, 0, 0, 0, 0, 0, 0, 0, 0, 0, 0, 0, 0, 0, 0, 0, 0, 0, 1, 1, 1, 0, 0, 0>>,
     <<4, 0, 0, 0, 0, 0, 0, 0, 0, 0, 0, 0, 0, 0, 0, 0, 0, 0, 0, 0, 0, 0, 0, 0, 0, 0, 0, 0, 0, 1, 1, 1, 0, 0, 0>>,
     <<5, 0, 0, 0, 0, 0, 0, 0, 0, 0, 0, 0, 0, 0, 0, 0, 0, 1, 1, 1, 1, 1, 0, 0, 0, 0, 0, 0, 0, 1, 1, 1, 1, 0, 0>>,
     <<6, 1, 1, 1, 0, 0, 0, 0, 0, 0, 0, 0, 0, 0, 1, 1, 1, 1, 1, 1, 1, 1, 1, 1, 1, 1, 0, 0, 1, 1, 1, 1, 1, 0, 0>>,
     <<7, 1, 1, 1, 1, 1, 1, 0, 0, 0, 0, 1, 1, 1, 1, 1, 1, 1, 1, 1, 1, 1, 1, 1, 1, 1, 1, 1, 1, 1, 2, 2, 1, 0, 0>>,
     <<8, 1, 1, 1, 1, 1, 1, 1, 1, 1, 1, 1, 1, 1, 1, 1, 1, 1, 1, 1, 1, 1, 1, 1, 1, 1, 1, 1, 1, 1, 2, 2, 1, 0, 0>>,
     <<9, 1, 1, 1, 1, 1, 1, 1, 1, 1, 1, 1, 1, 1, 1, 1, 1, 1, 1, 1, 1, 1, 1, 1, 1, 1, 1, 1, 1, 1, 2, 2, 1, 0, 0>>,
     <<10, 1, 1, 1, 1, 1, 1, 1, 1, 1, 1, 1, 1, 1, 1, 1, 1, 1, 1, 1, 1, 1, 1, 1, 1, 1, 1, 1, 1, 2, 2, 2, 1, 0, 0>>,
     <<11, 1, 1, 1, 1, 1, 1, 1, 1, 1, 1, 1, 1, 1, 1, 1, 1, 1, 1, 1, 1, 1, 1, 1, 1, 1, 1, 1, 1, 2, 2, 2, 1, 0, 0>>,
     <<12, 1, 1, 1, 1, 1, 1, 1, 1, 1, 1, 1, 1, 1, 1, 1, 1, 1, 1, 1, 1, 1, 1, 1, 1, 1, 1, 1, 1, 2, 2, 2, 1, 0, 0>>,
     <<13, 1, 1, 1, 1, 1, 1, 1, 1, 1, 1, 1, 1, 1, 1, 1, 1, 1, 1, 1, 1, 1, 1, 1, 1, 1, 1, 1, 1, 2, 3, 3, 1, 0, 0>>,
     <<14, 1, 1, 1, 1, 1, 1, 1, 1, 1, 1, 1, 1, 1, 1, 1, 1, 1, 1, 1, 1, 1, 1, 1, 1, 1, 1, 1, 1, 2, 3, 3, 1, 0, 0>>,
     <<15, 1, 1, 1, 1, 1, 1, 1, 1, 1, 1, 1, 1, 1, 1, 1, 1, 1, 1, 1, 1, 1, 1, 1, 1, 1, 1, 1, 1, 2, 3, 3, 1, 0, 0>>,
     <<16, 1, 1, 1, 1, 1, 1, 1, 1, 1, 1, 1, 1, 1, 1, 1, 1, 1, 1, 1, 1, 1, 1, 1, 1, 1, 1, 1, 1, 2, 3, 3, 1, 0, 0>>,
     <<17, 1, 1, 1, 1, 1, 1, 1, 1, 1, 1, 1, 1, 1, 1, 1, 1, 1, 1, 1, 1, 1, 1, 1, 1, 1, 1, 1, 1, 2, 3, 3, 1, 0, 0>>,
     <<18, 1, 1, 1, 1, 1, 1, 1, 1, 1, 1, 1, 1, 1, 1, 1, 1, 1, 1, 1, 1, 1, 1, 1, 1, 1, 1, 1, 1, 2, 3, 3, 1, 0, 0>>,
     <<19, 1, 1, 1, 1, 1, 1, 1, 1, 1, 1, 1, 1, 1, 1, 1, 1, 1, 1, 1, 1, 1, 1, 1, 1, 1, 1, 1, 1, 3, 4, 4, 1, 0, 0>>,
     <<20, 1, 1, 1, 1, 1, 1, 1, 1, 1, 1, 1, 1, 1, 1, 1, 1, 1, 1, 1, 2, 1, 1, 1, 1, 1, 1, 1, 1, 3, 4, 4, 2, 0, 0>>,
     <<21, 1, 1, 1, 1, 1, 1, 1, 1, 1, 1, 1, 1, 1, 1, 1, 1, 1, 2, 2, 2, 1, 1, 1, 1, 1, 1, 1, 1, 3, 4, 4, 2, 0, 0>>,
     <<22, 1, 1, 1, 1, 1, 1, 1, 1, 1, 1, 1, 1, 1, 1, 1, 1, 2, 2, 2, 2, 2, 1, 1, 1, 1, 1, 1, 1, 3, 4, 4, 2, 0, 0>>,
     <<23, 1, 1, 1, 1, 1, 1, 1, 1, 1, 1, 1, 1, 1, 1, 1, 1, 2, 2, 2, 2, 2, 1, 1, 1, 1, 1, 1, 1, 3, 4, 4, 2, 0, 0>>,
     <<24, 1, 1, 1, 1, 1, 1, 1, 1, 1, 1, 1, 1, 1, 1, 1, 2, 2, 2, 2, 2, 2, 1, 1, 1, 1, 1, 1, 2, 3, 4, 4, 2, 0, 0>>,
     <<25, 1, 1, 1, 1, 1, 1, 1, 1, 1, 1, 1, 1, 1, 1, 1, 2, 2, 2, 2, 2, 2, 2, 1, 1, 1, 1, 1, 2, 3, 4, 4, 2, 0, 0>>,
     <<26, 1, 1, 1, 1, 1, 1, 1, 1, 1, 1, 1, 1, 1, 1, 1, 2, 2, 2, 2, 2, 2, 2, 1, 1, 1, 1, 1, 2, 3, 5, 4, 2, 0, 0>>,
     <<27, 1, 1, 1, 1, 1, 1, 1, 1, 1, 1, 1, 1, 1, 1, 1, 2, 2, 2, 2, 2, 2, 2, 1, 1, 1, 1, 1, 2, 3, 5, 5, 2, 0, 0>>,
     <<28, 1, 1, 1, 1, 1, 1, 1, 1, 1, 1, 1, 1, 1, 1, 1, 2, 2, 2, 2, 2, 2, 2, 1, 1, 1, 1, 1, 2, 3, 5, 5, 2, 0, 0>>,
     <<29, 1, 1, 1, 1, 1, 1, 1, 1, 1, 1, 1, 1, 1, 1, 1, 2, 2, 2, 2, 2, 2, 2, 2, 1, 1, 1, 1, 2, 3, 5, 5, 2, 0, 0>>,
     <<30, 1, 1, 1, 1, 1, 1, 1, 1, 1, 1, 1, 1, 1, 1, 1, 2, 2, 2, 2, 2, 2, 2, 2, 1, 1, 1, 1, 2, 3, 5, 5, 2, 0, 0>>,
     <<35, 1, 1, 1, 1, 1, 1, 1, 1, 1, 1, 1, 1, 1, 1, 2, 2, 2, 2, 2, 2, 2, 2, 2, 1, 1, 1, 1, 2, 4, 6, 5, 2, 0, -1>>,
     <<40, 1, 1, 1, 1, 1, 1, 1, 1, 1, 1, 1, 1, 1, 1, 2, 2, 2, 2, 2, 2, 2, 2, 2, 1, 1, 1, 1, 2, 4, 6, 6, 2, 0, -1>>,
     <<45, 1, 1, 1, 1, 1, 1, 1, 1, 1, 1, 1, 1, 1, 1, 1, 2, 2, 2, 2, 2, 2, 2, 2, 1, 1, 1, 1, 2, 4, 7, 6, 2, -1, -1>>,
     <<50, 1, 1, 1, 1, 1, 1, 0, 0, 0, 0, 1, 1, 1, 1, 1, 2, 2, 2, 2, 2, 2, 2, 1, 1, 1, 1, 1, 2, 5, 7, 7, 2, -1, -2>>,
     <<55, 1, 1, 1, 1, 1, 0, 0, 0, 0, 0, 0, 1, 1, 1, 1, 2, 2, 2, 2, 2, 2, 2, 1, 1, 1, 1, 1, 2, 5, 8, 7, 2, -1, -2>>,
     <<60, 1, 1, 1, 1, 1, 0, 0, 0, 0, 0, 0, 1, 1, 1, 1, 2, 2, 2, 2, 2, 2, 2, 1, 1, 1, 1, 1, 2, 5, 8, 8, 2, -1, -2>>,
     <<65, 1, 1, 1, 1, 0, 0, 0, 0, 0, 0, 0, 1, 1, 1, 1, 2, 2, 2, 2, 2, 2, 2, 1, 1, 1, 1, 1, 2, 5, 9, 8, 2, -2, -3>>,
     <<70, 1, 1, 1, 1, 0, 0, 0, 0, 0, 0, 0, 0, 1, 1, 1, 2, 2, 2, 2, 2, 2, 2, 1, 1, 1, 1, 0, 2, 5, 9, 9, 2, -2, -3>>,
     <<75, 1, 1, 1, 1, 0, 0, 0, 0, 0, 0, 0, 0, 1, 1, 1, 2, 2, 2, 2, 2, 2, 2, 1, 1, 1, 1, 0, 2, 6, 10, 9, 2, -2, -3>>,
     <<80, 1, 1, 1, 1, 0, 0, 0, 0, 0, 0, 0, 0, 1, 1, 1, 2, 2, 2, 2, 2, 2, 2, 1, 1, 1, 1, 0, 2, 6, 10, 10, 2, -2, -3>>,
     <<85, 1, 1, 1, 1, 0, 0, 0, 0, 0, 0, 0, 0, 1, 1, 1, 2, 2, 2, 2, 2, 2, 2, 2, 1, 1, 1, 0, 2, 7, 11, 11, 2, -3, -4>>,
     <<90, 1, 1, 1, 1, 0, 0, 0, 0, 0, 0, 0, 0, 1, 1, 2, 2, 2, 2, 2, 2, 2, 2, 2, 1, 1, 1, 1, 2, 7, 12, 11, 2, -3, -4>>,
     <<95, 1, 1, 1, 1, 0, 0, 0, 0, 0, 0, 0, 1, 1, 1, 2, 2, 2, 2, 2, 3, 2, 2, 2, 1, 1, 1, 1, 2, 7, 12, 12, 3, -3, -4>>,
     <<100, 1, 1, 1, 1, 0, 0, 0, 0, 0, 0, 0, 1, 1, 1, 2, 2, 2, 2, 3, 3, 2, 2, 2, 1, 1, 1, 1, 2, 8, 13, 12, 3, -3, -4>>,
     <<105, 1, 1, 1, 1, 0, 0, 0, 0, 0, 0, 0, 1, 1, 1, 2, 2, 3, 3, 3, 3, 3, 2, 2, 2, 1, 1, 1, 2, 8, 13, 13, 3, -3, -4>>,
     <<110, 1, 1, 1, 1, 0, 0, 0, 0, 0, 0, 0, 1, 1, 1, 2, 2, 3, 3, 3, 3, 3, 2, 2, 2, 1, 1, 1, 2, 8, 14, 14, 3, -3, -5>>,
     <<115, 1, 1, 1, 1, 1, 0, 0, 0, 0, 0, 0, 1, 1, 2, 2, 2, 3, 3, 3, 3, 3, 2, 2, 2, 1, 1, 1, 2, 9, 15, 14, 3, -3, -5>>,
     <<120, 1, 1, 1, 1, 1, 0, 0, 0, 0, 0, 0, 1, 1, 2, 2, 2, 3, 3, 3, 3, 3, 2, 2, 2, 1, 1, 1, 3, 9, 15, 15, 3, -4, -5>>,
     <<125, 1, 1, 2, 1, 1, 0, 0, 0, 0, 0, 0, 1, 1, 2, 2, 3, 3, 3, 3, 3, 3, 3, 2, 2, 1, 1, 1, 3, 10, 16, 16, 3, -4, -5>>,
     <<130, 1, 1, 2, 1, 1, 0, 0, 0, 0, 0, 0, 1, 1, 2, 2, 3, 3, 3, 3, 3, 3, 3, 2, 2, 2, 1, 1, 3, 10, 17, 16, 3, -4, -6>>,
     <<135, 1, 2, 2, 1, 1, 0, 0, 0, -1, 0, 0, 1, 1, 2, 2, 3, 3, 3, 3, 4, 3, 3, 2, 2, 2, 1, 1, 3, 10, 17, 17, 4, -4, -6>>,
     <<140, 1, 2, 2, 1, 1, 0, 0, 0, -1, 0, 0, 1, 1, 2, 2, 3, 3, 3, 4, 4, 3, 3, 2, 2, 2, 1, 1, 3, 11, 18, 17, 4, -4, -6>>,
     <<145, 2, 2, 2, 1, 1, 0, 0, 0, -1, 0, 0, 1, 1, 2, 2, 3, 3, 4, 4, 4, 3, 3, 3, 2, 2, 1, 1, 3, 11, 19, 18, 4, -4, -6>>,
     <<150, 2, 2, 2, 1, 1, 0, 0, -1, -1, 0, 0, 1, 1, 2, 3, 3, 4, 4, 4, 4, 4, 3, 3, 2, 2, 1, 1, 3, 12, 19, 19, 4, -4, -6>> >>

WT(s, a) == windtab[s + 1][a + 1]

(* interpolate: the result as an exact fraction <<num, den>>.              *)
interpolate(rx0, rx1, ry0, ry1, x0, x1, y0, y1, x, y) ==
  IF rx0 = rx1
    THEN Frac((y + x0) * (ry1 - ry0) + (y - ry0) * (y1 - y0), ry1 - ry0)
  ELSE IF ry0 = ry1
    THEN Frac((y + y0) * (rx1 - rx0) + (x - rx0) * (x1 - x0), rx1 - rx0)
  ELSE
    LET dy  == ry1 - ry0
        dx  == rx1 - rx0
        n0  == x0 * dy + (y - ry0) * (y0 - x0)    \* dy0 = n0 / dy
        n1  == x1 * dy + (y - ry0) * (y1 - x1)    \* dy1 = n1 / dy
    IN Frac(y * dy * dx + n0 * dx + (x - rx0) * (n1 - n0), dy * dx)

RECURSIVE speed_row(_, _)
speed_row(s0, raw_mph) ==
  IF WT(s0, 0) < raw_mph THEN speed_row(s0 + 1, raw_mph) ELSE s0

RECURSIVE angle_col(_, _)
angle_col(a0, raw_angle) ==
  IF WT(0, a0) < raw_angle THEN angle_col(a0 + 1, raw_angle) ELSE a0

(* A folding about 255 instead of 256.                                     *)
fold_angle_short(raw_angle) ==
  IF raw_angle > 128 THEN 255 - raw_angle ELSE raw_angle

(* if raw_angle > 128: raw_angle = 256 - raw_angle                         *)
fold_angle(raw_angle) ==
  IF raw_angle > 128 THEN 256 - raw_angle ELSE raw_angle

calc_wind_speed_ec(raw_mph, raw_angle_in) ==
  IF raw_mph < 3 \/ raw_mph > 150 THEN <<raw_mph, 1>>
  ELSE
    LET raw_angle == fold_angle(raw_angle_in)
        sw == speed_row(1, raw_mph)
        aw == angle_col(1, raw_angle)
        s_exact == WT(sw, 0) = raw_mph
        a_exact == WT(0, aw) = raw_angle
        s0 == IF s_exact THEN sw ELSE IF sw > 1 THEN sw - 1 ELSE sw
        s1 == IF s_exact THEN sw
              ELSE IF s0 = Len(windtab) - 1 THEN Len(windtab) - 1 ELSE s0 + 1
        a0 == IF a_exact THEN aw ELSE IF aw > 1 THEN aw - 1 ELSE aw
        a1 == IF a_exact THEN aw
              ELSE IF a0 = Len(windtab) - 1 THEN Len(windtab[1]) - 2 ELSE a0 + 1
    IN IF s0 = s1 /\ a0 = a1
         THEN <<raw_mph + WT(s0, a0), 1>>
         ELSE interpolate(WT(0, a0), WT(0, a1), WT(s0, 0), WT(s1, 0),
                          WT(s0, a0), WT(s0, a1), WT(s1, a0), WT(s1, a1),
                          raw_angle, raw_mph)

-----------------------------------------------------------------------------
(* Calibration of the leaf and soil station.                               *)

DEFAULT_SOIL_TEMP == 24

(* SM_MAP and LW_MAP; the RAW rows are in tenths (99.2 is 992).            *)
SM_MAP ==
  [RAW |-> <<992, 1401, 2187, 2269, 2668, 3917, 4756, 5382, 5961, 6737, 7201>>,
   POT |-> <<0, 1, 9, 10, 15, 35, 55, 75, 100, 150, 200>>]

LW_MAP ==
  [RAW |-> <<8570, 8640, 8950, 9110, 9400, 9520, 9910, 10130>>,
   POT |-> <<15, 14, 5, 4, 3, 2, 1, 0>>]

(* A temperature in C is one of                                            *)
(*   <<"C", t>>           the constant t,                                  *)
(*   <<"FtoC", r>>        FtoC(r / 10.0),                                  *)
(*   <<"thermistor", q>>  the Steinhart-Hart temperature of the raw value  *)
(*                        q / 4 (a logarithm: kept symbolic).              *)
(* calculate_thermistor_temp of the raw value q / 4: 1.0 / temp_raw fails  *)
(* for 0; a raw value above 1 / b = 1001.2 makes r negative, math.log      *)
(* raises ValueError, which is caught, and the default is returned.        *)
calculate_thermistor_temp(q) ==
  IF q = 0 THEN [exc |-> "ZeroDivisionError", val |-> <<"C", 0>>]
  ELSE IF q >= 4005 THEN [exc |-> "", val |-> <<"C", DEFAULT_SOIL_TEMP>>]
  ELSE [exc |-> "", val |-> <<"thermistor", q>>]

RECURSIVE first_above(_, _, _)
(* The first (0-based) column x with norm10 < raw_row[x].                  *)
first_above(raw_row, norm10, x) ==
  IF norm10 < raw_row[x + 1] THEN x ELSE first_above(raw_row, norm10, x + 1)

(* A lookup that goes on along the last segment of the table instead of   *)
(* stopping at its last potential.                                         *)
potential_unclamped(norm10, lookup) ==
  LET numcols == Len(lookup.RAW)
      x == IF norm10 >= lookup.RAW[numcols] THEN numcols - 1
           ELSE first_above(lookup.RAW, norm10, 0)
  IN IF x = 0 THEN <<lookup.POT[1], 1>>
     ELSE LET dpot == lookup.POT[x + 1] - lookup.POT[x]
              draw == lookup.RAW[x + 1] - lookup.RAW[x]
          IN Frac(lookup.POT[x] * draw + (norm10 - lookup.RAW[x]) * dpot, draw)

(* lookup_potential on the normalised raw value norm10 (in tenths).        *)
potential_of(norm10, lookup) ==
  LET numcols == Len(lookup.RAW)
  IN IF norm10 >= lookup.RAW[numcols]
       THEN <<lookup.POT[numcols], 1>>
       ELSE LET x == first_above(lookup.RAW, norm10, 0)
            IN IF x = 0 THEN <<lookup.POT[1], 1>>
               ELSE LET dpot == lookup.POT[x + 1] - lookup.POT[x]
                        draw == lookup.RAW[x + 1] - lookup.RAW[x]
                    IN Frac(lookup.POT[x] * draw + (norm10 - lookup.RAW[x]) * dpot,
                            draw)

(* lookup_potential: norm_fact is in thousandths.  The normalised value is *)
(* sensor_raw itself when the factor is 0 or the temperature is the        *)
(* default; with a thermistor temperature it is kept symbolic.             *)
lookup_potential(norm_fact, sensor_raw, sensor_temp, lookup) ==
  IF norm_fact = 0 \/ sensor_temp = <<"C", DEFAULT_SOIL_TEMP>>
    THEN LET p == potential_of(10 * sensor_raw, lookup)
         IN <<"exact", p[1], p[2]>>
    ELSE <<"normalised", sensor_raw, sensor_temp[2]>>

-----------------------------------------------------------------------------
(* The payload decoder, RtldavisDriver.parse_raw.  pkt is the sequence of  *)
(* the 8 payload bytes, P(pkt, i) the code's pkt[i]; channels is           *)
(* self.channels.  The result is [exc, data]: exc is "" and data the       *)
(* returned dict, or exc names the exception the call raises.              *)

P(pkt, i) == pkt[i + 1]

Returns(d) == [exc |-> "", data |-> d]
Raises(e) == [exc |-> e, data |-> EmptyDict]

(* bits 9..2 from byte hi, bits 1..0 from the top of byte lo               *)
ten_bits(hi, lo) == BitAnd(Shl(hi, 2) + Shr(lo, 6), 1023)

(* Lines 1046-1085.  wind_dir is in 1/253 degree, wind_speed in            *)
(* MPH_TO_MPS m/s.  The four assignments are inside the last branch of     *)
(* the direction test.                                                     *)
parse_wind(pkt) ==
  LET wind_speed_raw == P(pkt, 1)
      wind_dir_raw   == P(pkt, 2)
  IN IF wind_speed_raw = 0 /\ wind_dir_raw = 0 THEN EmptyDict
     ELSE IF wind_dir_raw = 0 THEN EmptyDict
     ELSE IF wind_dir_raw = 255 THEN EmptyDict
     ELSE LET wind_dir_pro  == 9 * 253 + (wind_dir_raw - 1) * 342
              wind_speed_ec == round(calc_wind_speed_ec(wind_speed_raw, wind_dir_raw))
          IN [wind_speed_ec  |-> wind_speed_ec,
              wind_speed_raw |-> wind_speed_raw,
              wind_dir       |-> wind_dir_pro,
              wind_speed     |-> wind_speed_ec]

(* Lines 1032-1039: the battery flag goes to the first role that owns the  *)
(* channel.                                                                *)
parse_battery(channels, channel, battery_low) ==
  IF channel = channels.iss THEN [bat_iss |-> battery_low]
  ELSE IF channel = channels.anemometer THEN [bat_anemometer |-> battery_low]
  ELSE IF channel = channels.temp_hum_1 THEN [bat_th_1 |-> battery_low]
  ELSE [bat_th_2 |-> battery_low]

(* Lines 1121-1156.  rain_rate is in micrometre/h, rain_per_tip in         *)
(* micrometre.  "pkt[4] & 0x40 == 0" is (pkt[4] & 0x40) == 0: bit 0x40     *)
(* clear is heavy rain, time_between_tips = raw / 16.0.  Both branches     *)
(* divide 3600.0 by time_between_tips.                                     *)
parse_rain_rate(channels, rain_per_tip, channel, pkt) ==
  LET time_between_tips_raw == Shl(BitAnd(P(pkt, 4), 48), 4) + P(pkt, 3)
  IN IF channel # channels.iss THEN Returns(EmptyDict)
     ELSE IF time_between_tips_raw = 1023 THEN Returns([rain_rate |-> <<0, 1>>])
     ELSE IF time_between_tips_raw = 0 THEN Raises("ZeroDivisionError")
     ELSE IF BitAnd(P(pkt, 4), 64) = 0
       THEN Returns([rain_rate |-> Frac(3600 * 16 * rain_per_tip, time_between_tips_raw)])
     ELSE Returns([rain_rate |-> Frac(3600 * rain_per_tip, time_between_tips_raw)])

(* Lines 1180-1206.  The analog value is temp_raw / 4, kept in quarters.   *)
parse_temperature(channels, channel, pkt) ==
  LET temp_raw == Shl(P(pkt, 3), 4) + Shr(P(pkt, 4), 4)
      temp == IF BitAnd(P(pkt, 4), 8) # 0
                THEN [exc |-> "", val |-> <<"FtoC", temp_raw>>]
                ELSE calculate_thermistor_temp(temp_raw)
  IN IF temp_raw = 4092 THEN Returns(EmptyDict)
     ELSE IF temp.exc # "" THEN Raises(temp.exc)
     ELSE IF channel = channels.temp_hum_1 THEN Returns([temp_1 |-> temp.val])
     ELSE IF channel = channels.temp_hum_2 THEN Returns([temp_2 |-> temp.val])
     ELSE Returns([temperature |-> temp.val])

(* Lines 1219-1244.  "pkt[4] & 0x08 == 0x8" is (pkt[4] & 0x08) == 0x8.    *)
(* <<"digital", r>> is r / 10.0 and <<"analog", r>> is                     *)
(* r * -0.301 + 710.23.                                                    *)
parse_humidity(channels, channel, pkt) ==
  LET humidity_raw == Shl(Shr(P(pkt, 4), 4), 8) + P(pkt, 3)
      humidity == IF BitAnd(P(pkt, 4), 8) = 8
                    THEN <<"digital", humidity_raw>>
                    ELSE <<"analog", humidity_raw>>
  IN IF humidity_raw = 0 THEN EmptyDict
     ELSE IF channel = channels.temp_hum_1 THEN [humid_1 |-> humidity]
     ELSE IF channel = channels.temp_hum_2 THEN [humid_2 |-> humidity]
     ELSE IF channel = channels.anemometer THEN EmptyDict
     ELSE [humidity |-> humidity]

(* Lines 1263-1277.                                                        *)
parse_rain_count(pkt) ==
  LET rain_count_raw == P(pkt, 3)
  IN IF rain_count_raw # 128
       THEN [rain_count |-> BitAnd(rain_count_raw, 127)]
       ELSE EmptyDict

(* Lines 1089-1280: the dispatch on the message type.  supercap_volt and   *)
(* solar_power are in 1/300 V, uv in 1/50, solar_radiation in 1.757936     *)
(* W/m2.                                                                   *)
parse_message(channels, rain_per_tip, channel, pkt) ==
  LET message_type == BitAnd(Shr(P(pkt, 0), 4), 15)
      raw10 == ten_bits(P(pkt, 3), P(pkt, 4))
  IN CASE message_type = 2 ->
            Returns(IF raw10 # 1023 THEN [supercap_volt |-> raw10] ELSE EmptyDict)
       [] message_type = 4 ->
            Returns(IF raw10 # 1023 THEN [uv |-> raw10] ELSE EmptyDict)
       [] message_type = 5 -> parse_rain_rate(channels, rain_per_tip, channel, pkt)
       [] message_type = 6 ->
            Returns(IF raw10 < 1022 THEN [solar_radiation |-> raw10] ELSE EmptyDict)
       [] message_type = 7 ->
            Returns(IF raw10 # 1023 THEN [solar_power |-> raw10] ELSE EmptyDict)
       [] message_type = 8 -> parse_temperature(channels, channel, pkt)
       [] message_type = 10 -> Returns(parse_humidity(channels, channel, pkt))
       [] message_type = 14 -> Returns(parse_rain_count(pkt))
       [] OTHER -> Returns(EmptyDict)

soil_temp_key == <<"soil_temp_1", "soil_temp_2", "soil_temp_3", "soil_temp_4",
                   "soil_temp_5", "soil_temp_6", "soil_temp_7", "soil_temp_8">>
soil_moisture_key == <<"soil_moisture_1", "soil_moisture_2", "soil_moisture_3",
                       "soil_moisture_4", "soil_moisture_5", "soil_moisture_6",
                       "soil_moisture_7", "soil_moisture_8">>
leaf_temp_key == <<"leaf_temp_1", "leaf_temp_2", "leaf_temp_3", "leaf_temp_4",
                   "leaf_temp_5", "leaf_temp_6", "leaf_temp_7", "leaf_temp_8">>
leaf_wetness_key == <<"leaf_wetness_1", "leaf_wetness_2", "leaf_wetness_3",
                      "leaf_wetness_4", "leaf_wetness_5", "leaf_wetness_6",
                      "leaf_wetness_7", "leaf_wetness_8">>

(* Lines 1282-1336: the leaf and soil station.                             *)
parse_leaf_soil(pkt) ==
  LET data_type     == Shr(P(pkt, 0), 4)
      data_subtype  == BitAnd(P(pkt, 1), 3)
      sensor_num    == Shr(BitAnd(P(pkt, 1), 224), 5) + 1
      temp_raw      == ten_bits(P(pkt, 3), P(pkt, 5))
      potential_raw == ten_bits(P(pkt, 2), P(pkt, 4))
      has_temp      == P(pkt, 3) # 255
      temp          == IF has_temp THEN calculate_thermistor_temp(4 * temp_raw)
                       ELSE [exc |-> "", val |-> <<"C", DEFAULT_SOIL_TEMP>>]
  IN IF data_type # 15 \/ data_subtype \notin {1, 2} THEN Returns(EmptyDict)
     ELSE IF temp.exc # "" THEN Raises(temp.exc)
     ELSE IF data_subtype = 1
       THEN Returns(
              (IF has_temp THEN soil_temp_key[sensor_num] :> temp.val ELSE EmptyDict)
              @@ (IF P(pkt, 2) # 255
                    THEN soil_moisture_key[sensor_num] :>
                           lookup_potential(9, potential_raw, temp.val, SM_MAP)
                    ELSE EmptyDict))
       ELSE Returns(
              (IF has_temp THEN leaf_temp_key[sensor_num] :> temp.val ELSE EmptyDict)
              @@ (IF P(pkt, 2) # 0
                    THEN leaf_wetness_key[sensor_num] :>
                           lookup_potential(0, potential_raw, temp.val, LW_MAP)
                    ELSE EmptyDict))

(* The unknown station branch formats its message with the name raw, which *)
(* is bound nowhere: the branch raises NameError.                          *)
parse_raw(channels, rain_per_tip, pkt) ==
  LET channel     == BitAnd(P(pkt, 0), 7) + 1
      battery_low == BitAnd(Shr(P(pkt, 0), 3), 1)
      head        == [channel |-> channel]
  IN IF channel \in {channels.iss, channels.anemometer,
                     channels.temp_hum_1, channels.temp_hum_2}
       THEN LET msg == parse_message(channels, rain_per_tip, channel, pkt)
            IN IF msg.exc # "" THEN Raises(msg.exc)
               ELSE Returns(head @@ parse_battery(channels, channel, battery_low)
                                 @@ parse_wind(pkt) @@ msg.data)
     ELSE IF channel = channels.leaf_soil
       THEN LET ls == parse_leaf_soil(pkt)
            IN IF ls.exc # "" THEN Raises(ls.exc)
               ELSE Returns(head @@ [bat_leaf_soil |-> battery_low] @@ ls.data)
     ELSE Raises("NameError")

-----------------------------------------------------------------------------
(* Lines of the receiver's stderr.  A line is a record: what the regular   *)
(* expressions of the frame parser can tell apart is its kind and fields.  *)
(*   "data"   HH:MM:SS.ffffff <16 hex digits> <4 decimal counters>         *)
(*   "hex"    HH:MM:SS.ffffff <16 hex digits>            (no counters)     *)
(*   "chan"   ... ChannelIdx:<idx> ChannelFreq:<n> FreqError:<err>         *)
(*            [ Transmitter:<tr>]        (tr = NoTransmitter: no field)    *)
(*   "chanid" a line with "ChannelIdx:" that neither pattern matches       *)
(*   "info"   any other text                                               *)
(*   "blank"  white space only                                             *)

NoTransmitter == -1

DataLine(bytes, cnt) ==
  [kind |-> "data", bytes |-> bytes, cnt |-> cnt, idx |-> 0, err |-> 0,
   tr |-> NoTransmitter]
HexLine(bytes) ==
  [kind |-> "hex", bytes |-> bytes, cnt |-> <<>>, idx |-> 0, err |-> 0,
   tr |-> NoTransmitter]
ChanLine(idx, err, tr) ==
  [kind |-> "chan", bytes |-> <<>>, cnt |-> <<>>, idx |-> idx, err |-> err,
   tr |-> tr]
TextLine(kind) ==
  [kind |-> kind, bytes |-> <<>>, cnt |-> <<>>, idx |-> 0, err |-> 0,
   tr |-> NoTransmitter]

(* The 8 bytes of a frame: 6 payload bytes and their CRC, high byte first. *)
Frame(p) ==
  LET c == crc16(p) IN p \o <<c \div 256, c % 256>>
(* The same frame with its last byte changed.                              *)
CorruptFrame(p) ==
  LET c == crc16(p) IN p \o <<c \div 256, (c + 1) % 256>>

-----------------------------------------------------------------------------
(* The frame parser.  drv is the driver object as the parsers read it:     *)
(* [channels, rain_per_tip, frequency, transm_to_store].  A parse result   *)
(* is [exc, pkt, popped]: the exception raised ("" for none), the value    *)
(* returned (a dict or None) and whether lines.pop(0) was executed.        *)

METRICWX == 17
ERR_RADIO == "WeeWxIOError: RESTART RTLDAVIS PROGRAM"
MAX_FREQ_ERROR == 20000

Parsed(pkt) == [exc |-> "", pkt |-> pkt, popped |-> TRUE]
ParseRaises(e) == [exc |-> e, pkt |-> None, popped |-> FALSE]

(* DATAPacket.IDENTIFIER: time stamp, then 16 hex digits of which the      *)
(* second is in 0..7.                                                      *)
DATA_IDENTIFIER(line) ==
  /\ line.kind \in {"data", "hex"}
  /\ (line.bytes[1] % 16) \in 0..7

(* DATAPacket.PATTERN: 8 hex pairs and 4 decimal counters.                 *)
DATA_PATTERN(line) == line.kind = "data"

CHANNEL_IDENTIFIER(line) == line.kind \in {"chan", "chanid"}
PATTERNv13(line) == line.kind = "chan" /\ line.tr # NoTransmitter
PATTERNv12(line) == line.kind = "chan"

(* The tail of DATAPacket.parse_text: r is what parse_raw did, cnt the     *)
(* four counters of the line.                                              *)
data_pkt(r, cnt) ==
  IF r.exc # "" THEN ParseRaises(r.exc)
  ELSE Parsed(r.data @@ [curr_cnt0 |-> cnt[1], curr_cnt1 |-> cnt[2],
                         curr_cnt2 |-> cnt[3], curr_cnt3 |-> cnt[4]])

DATA_parse_text(drv, line) ==
  IF DATA_PATTERN(line)
    THEN IF _check_crc(line.bytes) THEN ParseRaises("ValueError")
         ELSE data_pkt(parse_raw(drv.channels, drv.rain_per_tip, line.bytes),
                       line.cnt)
    ELSE Parsed(None)

freqError_key == <<"freqError0", "freqError1", "freqError2", "freqError3",
                   "freqError4">>

(* The record both channel patterns build for the EU band.                 *)
chan_pkt(line, t) ==
  [dateTime |-> t, usUnits |-> METRICWX]
  @@ (IF line.idx \in 0..4 THEN freqError_key[line.idx + 1] :> line.err
      ELSE EmptyDict)

(* A test of the frequency error that forgets the absolute value.          *)
freq_error_signed(err) == err > MAX_FREQ_ERROR

freq_error_too_big(err) == Abs(err) > MAX_FREQ_ERROR

CHANNEL_parse_text(drv, line, t) ==
  IF PATTERNv13(line)
    THEN IF freq_error_too_big(line.err) THEN ParseRaises(ERR_RADIO)
         ELSE IF drv.frequency = "EU" /\ line.tr = drv.transm_to_store
           THEN Parsed(chan_pkt(line, t))
           ELSE Parsed(EmptyDict)
  ELSE IF PATTERNv12(line)
    THEN IF freq_error_too_big(line.err) THEN ParseRaises(ERR_RADIO)
         ELSE IF drv.frequency = "EU"
           THEN Parsed(chan_pkt(line, t))
           ELSE Parsed(EmptyDict)
  ELSE Parsed(None)

(* PacketFactory.parse_text on the first line of the buffer.               *)
parse_text(drv, line, t) ==
  IF line.kind # "blank"
    THEN IF DATA_IDENTIFIER(line) THEN DATA_parse_text(drv, line)
         ELSE IF CHANNEL_IDENTIFIER(line) THEN CHANNEL_parse_text(drv, line, t)
         ELSE Parsed(None)
    ELSE Parsed(None)

-----------------------------------------------------------------------------
(* RtldavisDriver: construction.                                           *)

DEFAULT_SENSOR_MAP ==
  [pressure |-> "pressure", inTemp |-> "temp_in", windSpeed |-> "wind_speed",
   windDir |-> "wind_dir", outTemp |-> "temperature", outHumidity |-> "humidity",
   inHumidity |-> "humidity_in", rainRate |-> "rain_rate",
   radiation |-> "solar_radiation", UV |-> "uv",
   soilTemp1 |-> "soil_temp_1", soilTemp2 |-> "soil_temp_2",
   soilTemp3 |-> "soil_temp_3", soilTemp4 |-> "soil_temp_4",
   leafTemp1 |-> "leaf_temp_1", extraHumid1 |-> "humid_1",
   extraHumid2 |-> "humid_2", soilMoist1 |-> "soil_moisture_1",
   soilMoist2 |-> "soil_moisture_2", soilMoist3 |-> "soil_moisture_3",
   soilMoist4 |-> "soil_moisture_4", leafWet1 |-> "leaf_wetness_1",
   leafWet2 |-> "leaf_wetness_2", rxCheckPercent |-> "pct_good_all",
   txBatteryStatus |-> "bat_iss", supplyVoltage |-> "supercap_volt",
   referenceVoltage |-> "solar_power", windBatteryStatus |-> "bat_anemometer",
   rainBatteryStatus |-> "bat_leaf_soil", outTempBatteryStatus |-> "bat_th_1",
   inTempBatteryStatus |-> "bat_th_2", extraTemp1 |-> "pct_good_0",
   extraTemp2 |-> "pct_good_1", extraTemp3 |-> "pct_good_2",
   leafTemp2 |-> "pct_good_3", consBatteryVoltage |-> "freqError0",
   hail |-> "freqError1", hailRate |-> "freqError2",
   heatingTemp |-> "freqError3", heatingVoltage |-> "freqError4"]

(* rain_per_tip in micrometre: 0.254 mm for bucket type 0, else 0.2 mm.    *)
rain_per_tip_of(bucket_type) == IF bucket_type = 0 THEN 254 ELSE 200

(* An unset (None) value of a field that holds a fraction.                 *)
Unset == <<>>

(* loop_times in 1/16 s: 2.5625 is 41/16, ..., 3 is 48/16, 100.0.          *)
loop_times == <<41, 42, 43, 44, 45, 46, 47, 48, 1600>>

NOT_ACTIVE == 9

(* _init_stats.  Python lists are 0-based: list[i] is here seq[i + 1].     *)
_init_stats ==
  [activeTrIds    |-> [i \in 1..8 |-> NOT_ACTIVE],
   activeTrIdPtrs |-> [i \in 1..8 |-> 0],
   curr_ts   |-> 0,
   last_ts   |-> 0,
   curr_cnt  |-> <<0, 0, 0, 0>>,
   last_cnt  |-> <<0, 0, 0, 0>>,
   max_count |-> <<0, 0, 0, 0>>,
   count     |-> <<0, 0, 0, 0>>,
   missed    |-> <<0, 0, 0, 0>>,
   pct_good  |-> <<Unset, Unset, Unset, Unset>>,
   pct_good_all |-> Unset]

(* ch_to_xmit: the transmitter bit mask as the code sums it.               *)
transmitters_of(ch) ==
  Shl(1, ch.iss - 1)
  + (IF ch.anemometer # 0 THEN Shl(1, ch.anemometer - 1) ELSE 0)
  + (IF ch.leaf_soil # 0 THEN Shl(1, ch.leaf_soil - 1) ELSE 0)
  + (IF ch.temp_hum_1 # 0 THEN Shl(1, ch.temp_hum_1 - 1) ELSE 0)
  + (IF ch.temp_hum_2 # 0 THEN Shl(1, ch.temp_hum_2 - 1) ELSE 0)

RECURSIVE ch_to_xmit_loop(_, _, _, _)
(* The loop over i in range(0, 8): st is the stats dict, the result        *)
(* [stats, trIdCount].                                                     *)
ch_to_xmit_loop(transmitters, i, trIdCount, st) ==
  IF i = 8 THEN [stats |-> st, tr_count |-> trIdCount]
  ELSE IF BitAnd(transmitters, Shl(1, i)) # 0
    THEN ch_to_xmit_loop(transmitters, i + 1, trIdCount + 1,
           [st EXCEPT !.activeTrIds[trIdCount + 1] = i,
                      !.activeTrIdPtrs[i + 1] = trIdCount])
    ELSE ch_to_xmit_loop(transmitters, i + 1, trIdCount, st)

ch_to_xmit(ch, st) ==
  LET r == ch_to_xmit_loop(transmitters_of(ch), 0, 0, st)
  IN [transmitters |-> transmitters_of(ch), tr_count |-> r.tr_count,
      stats |-> r.stats]

-----------------------------------------------------------------------------
(* The state.                                                              *)
(*   channels, frequency, rain_per_tip, transmitters, tr_count, stats,     *)
(*   transm_to_store, _save_pct_good_per_transmitter, last_rain_count,     *)
(*   _last_pkt                        fields of the RtldavisDriver object  *)
(*   now                              the clock, in seconds                *)
(*   procRunning                      ProcManager.running()                *)
(*   stderr_queue                     ProcManager.stderr_queue             *)
(*   written                          lines the process has written        *)
(*   pc, lines, start_time, get_start, time_last_received, packet          *)
(*                                    position and locals of               *)
(*                                    genLoopPackets and get_stderr        *)
(*   error                            the exception that ended the loop    *)
(*   yielded                          what PacketFactory.create yielded    *)
(*   record                           event.record of the archive event    *)
(*   summary                          history: the number of archive       *)
(*                                    events, and of the last one whether  *)
(*                                    it was the first since startup, the  *)
(*                                    exception it raised and the stats    *)
(*                                    as _update_summaries left them       *)
(*   last, prev                       history: the last line parsed with   *)
(*                                    its outcome (n: the length of        *)
(*                                    yielded before it); the last non-empty *)
(*                                    record decoded before it and the     *)
(*                                    rain count of the last packet made   *)
(*                                    from a rain reading before it        *)

VARIABLES channels, frequency, rain_per_tip, transmitters, tr_count,
          _save_pct_good_per_transmitter, stats, transm_to_store,
          last_rain_count, _last_pkt, now, procRunning, stderr_queue, written,
          pc, lines, start_time, get_start, time_last_received, packet, error,
          yielded, record, summary, last, prev

(* The process supervisor (ProcManager) and its reader threads:            *)
(*   config        the driver section of the configuration, before         *)
(*                 RtldavisDriver.__init__ has read it                     *)
(*   python3       the interpreter is Python 3 (not Python 2)              *)
(*   stray         another instance of the receiver program is running    *)
(*   pipe          per stream, the lines written and not yet read          *)
(*   wrote         per stream, all the lines the process wrote             *)
(*   reader        per stream, the AsyncReader: [pc, _running,             *)
(*                 stop_called, after_stop]                                *)
(*   stdout_queue  ProcManager.stdout_queue                                *)
(*   shutdown      ProcManager.shutdown: [pc, exc]                         *)
(*   handed        the lines of the batches get_stderr has yielded         *)
VARIABLES config, python3, stray, pipe, wrote, reader, stdout_queue, shutdown,
          handed

(* The decoding functions called on their own:                             *)
(*   call          the function called and its arguments                   *)
(*   result        what the call returned or raised, once it has ended     *)
VARIABLES call, result

fnVars == <<call, result>>

mgrVars == <<config, python3, stray, pipe, wrote, reader, stdout_queue,
             shutdown, handed>>

cfgVars == <<channels, frequency, rain_per_tip, transmitters, tr_count,
             _save_pct_good_per_transmitter>>
envVars == <<now, procRunning, stderr_queue, written>>
vars == <<channels, frequency, rain_per_tip, transmitters, tr_count,
          _save_pct_good_per_transmitter, stats, transm_to_store,
          last_rain_count, _last_pkt, now, procRunning, stderr_queue, written,
          pc, lines, start_time, get_start, time_last_received, packet, error,
          yielded, record, summary, last, prev, config, python3, stray, pipe,
          wrote, reader, stdout_queue, shutdown, handed, call, result>>

NoCall == [fn |-> "", args |-> <<>>]
NoResult == [exc |-> "", value |-> <<>>]

(* last_rain_count = None.                                                 *)
NoRainCount == -1

NoLine == TextLine("none")
NoLast == [line |-> NoLine, exc |-> "", pkt |-> None, popped |-> FALSE,
           emitted |-> FALSE, n |-> 0]
NoPrev == [data |-> None, rain |-> NoRainCount]
NoSummary == [n |-> 0, first |-> TRUE, exc |-> "", stats |-> _init_stats]

ERR_STALLED == "WeeWxIOError: rtldavis process stalled"
ERR_NOT_RUNNING == "WeeWxIOError: rtldavis process is not running"
STALL_TIMEOUT == 150
GET_TIMEOUT == 10
MAX_RUN_TIME == 10
periodShowOneTransm == 2 * 24 * 3600

drv_of(ch, rpt, freq, tts) ==
  [channels |-> ch, rain_per_tip |-> rpt, frequency |-> freq,
   transm_to_store |-> tts]

(* The state after RtldavisDriver.__init__ with configuration cfg =        *)
(* [channels, frequency, bucket_type, save_pct_good_per_transmitter], at   *)
(* time t0.                                                                *)
DriverFields(cfg, t0) ==
  LET x == ch_to_xmit(cfg.channels, _init_stats)
  IN /\ channels = cfg.channels
     /\ frequency = cfg.frequency
     /\ rain_per_tip = rain_per_tip_of(cfg.bucket_type)
     /\ transmitters = x.transmitters
     /\ tr_count = x.tr_count
     /\ _save_pct_good_per_transmitter = cfg.save_pct_good_per_transmitter
     /\ stats = x.stats
     /\ transm_to_store = NOT_ACTIVE
     /\ last_rain_count = NoRainCount
     /\ _last_pkt = None
     /\ now = t0
     /\ procRunning = TRUE
     /\ stderr_queue = <<>>
     /\ written = 0
     /\ pc = "start"
     /\ lines = <<>>
     /\ start_time = t0
     /\ get_start = t0
     /\ time_last_received = t0
     /\ packet = EmptyDict
     /\ error = ""
     /\ yielded = <<>>
     /\ record = EmptyDict
     /\ summary = NoSummary
     /\ last = NoLast
     /\ prev = NoPrev

Streams == {"stderr", "stdout"}

(* An AsyncReader after __init__ and start(), before run() has begun.      *)
NewReader == [pc |-> "new", _running |-> FALSE, stop_called |-> FALSE,
              after_stop |-> 0]

NoConfig == [frequency |-> "", bucket_type |-> 0, channels |-> EmptyDict]

(* The supervisor after ProcManager.startup under the interpreter py: the  *)
(* process runs and both readers are started.                              *)
ManagerStarted(py) ==
  /\ config = NoConfig
  /\ python3 = py
  /\ stray = FALSE
  /\ pipe = [s \in Streams |-> <<>>]
  /\ wrote = [s \in Streams |-> <<>>]
  /\ reader = [s \in Streams |-> NewReader]
  /\ stdout_queue = <<>>
  /\ shutdown = [pc |-> "idle", exc |-> ""]
  /\ handed = <<>>

(* The supervisor as the read loop and the statistics see it: the reader   *)
(* threads are those of ProcWrite, and shutdown is not called.             *)
NoManager == ManagerStarted(TRUE)

(* No decoding function is called on its own.                              *)
NoCalls == call = NoCall /\ result = NoResult

DriverInit(cfg, t0) == DriverFields(cfg, t0) /\ NoManager /\ NoCalls

-----------------------------------------------------------------------------
(* The rain counter wrap around from 127 to 0.                             *)
(* A rain difference that is not wrapped.                                  *)
rain_nowrap(rain_count) == rain_count

rain_wrap(rain_count) == IF rain_count < 0 THEN rain_count + 128 ELSE rain_count

(* _data_to_packet: [packet, last_rain_count].  rain is in micrometre.     *)
_data_to_packet(sensor_map, data, lrc, rpt, t) ==
  LET mapped == [k \in {f \in DOMAIN sensor_map : sensor_map[f] \in DOMAIN data}
                   |-> data[sensor_map[k]]]
      diff   == IF lrc # NoRainCount THEN data.rain_count - lrc ELSE 0
      rain_count == rain_wrap(diff)
      stamp  == [dateTime |-> t, usUnits |-> METRICWX]
  IN IF "rain_count" \in DOMAIN data
       THEN [packet |-> stamp @@ [rain |-> rain_count * rpt] @@ mapped,
             last_rain_count |-> data.rain_count]
       ELSE [packet |-> stamp @@ mapped, last_rain_count |-> lrc]

(* _update_stats                                                           *)
_update_stats(st, c0, c1, c2, c3) == [st EXCEPT !.curr_cnt = <<c0, c1, c2, c3>>]

rel_transm_to_store(t, n) ==
  (((t - 3 * 3600) % (periodShowOneTransm * n)) \div periodShowOneTransm)

-----------------------------------------------------------------------------
(* genLoopPackets, get_stderr and PacketFactory.create as one thread.      *)
(*   pc = "start"   genLoopPackets not yet entered                         *)
(*        "while"   at the test of  while self._mgr.running()              *)
(*        "drain"   at the test of the while loop of get_stderr            *)
(*        "get"     blocked in stderr_queue.get(True, 10)                  *)
(*        "create"  at the test of  while lines  in PacketFactory.create   *)
(*        "yield"   suspended at  yield packet                             *)
(*        "raised"  ended by the exception in error                        *)

GenLoopStart ==
  /\ pc = "start"
  /\ time_last_received' = now
  /\ transm_to_store' = stats.activeTrIds[rel_transm_to_store(now, tr_count) + 1]
  /\ packet' = EmptyDict
  /\ pc' = "while"
  /\ UNCHANGED <<fnVars, cfgVars, mgrVars, envVars, stats, last_rain_count, _last_pkt, lines,
                 start_time, get_start, error, yielded, record, summary, last, prev>>

(* ProcManager.running: p is "the process has not exited".                 *)
(* A liveness test that never sees the process exit.                       *)
running_always(p) == TRUE

running(p) == p

(* A stall test with twice the time-out.                                   *)
stalled_late(t, tlr) == t - tlr > 2 * STALL_TIMEOUT

stalled(t, tlr) == t - tlr > STALL_TIMEOUT

WhileTest ==
  /\ pc = "while"
  /\ IF ~running(procRunning)
       THEN /\ pc' = "raised"
            /\ error' = ERR_NOT_RUNNING
            /\ UNCHANGED start_time
       ELSE IF stalled(now, time_last_received)
         THEN /\ pc' = "raised"
              /\ error' = ERR_STALLED
              /\ UNCHANGED start_time
         ELSE /\ pc' = "drain"
              /\ start_time' = now
              /\ UNCHANGED error
  /\ UNCHANGED <<fnVars, cfgVars, mgrVars, envVars, stats, transm_to_store, last_rain_count,
                 _last_pkt, lines, get_start, time_last_received, packet,
                 yielded, record, summary, last, prev>>

run_time_left(t, st) == t - st < MAX_RUN_TIME

DrainTest ==
  /\ pc = "drain"
  /\ IF running(procRunning) /\ run_time_left(now, start_time)
       THEN pc' = "get" /\ get_start' = now
       ELSE pc' = "while" /\ UNCHANGED get_start
  /\ UNCHANGED <<fnVars, cfgVars, mgrVars, envVars, stats, transm_to_store, last_rain_count,
                 _last_pkt, lines, start_time, time_last_received, packet,
                 error, yielded, record, summary, last, prev>>

(* stderr_queue.get returns a line.                                        *)
QueueGet ==
  /\ pc = "get"
  /\ stderr_queue # <<>>
  /\ lines' = <<Head(stderr_queue)>>
  /\ stderr_queue' = Tail(stderr_queue)
  /\ pc' = "create"
  /\ UNCHANGED <<fnVars, cfgVars, mgrVars, now, procRunning, written, stats, transm_to_store,
                 last_rain_count, _last_pkt, start_time, get_start,
                 time_last_received, packet, error, yielded, record, summary, last,
                 prev>>

get_timed_out(t, gs) == t - gs >= GET_TIMEOUT

(* stderr_queue.get raises queue.Empty: get_stderr yields an empty list.   *)
QueueEmpty ==
  /\ pc = "get"
  /\ stderr_queue = <<>>
  /\ get_timed_out(now, get_start)
  /\ lines' = <<>>
  /\ pc' = "create"
  /\ UNCHANGED <<fnVars, cfgVars, mgrVars, envVars, stats, transm_to_store, last_rain_count,
                 _last_pkt, start_time, get_start, time_last_received, packet,
                 error, yielded, record, summary, last, prev>>

Truthy(data) == data # None /\ data # EmptyDict

(* data != self._last_pkt                                                  *)
(* A comparison that takes every record as new.                            *)
differs_always(data, last_pkt) == TRUE

differs(data, last_pkt) == data # last_pkt

(* The history after the line in last: see the variables.                  *)
history ==
  [data |-> IF last.exc = "" /\ Truthy(last.pkt) THEN last.pkt ELSE prev.data,
   rain |-> IF last.emitted /\ "rain_count" \in DOMAIN last.pkt
              THEN last.pkt.rain_count ELSE prev.rain]

(* The body of  for data in PacketFactory.create(self, lines)  for the     *)
(* parse result r of the first line of the buffer, up to the yield of the  *)
(* packet.                                                                 *)
handle_data(r) ==
  LET data == r.pkt
      fresh == differs(data, _last_pkt)
      p == _data_to_packet(DEFAULT_SENSOR_MAP, data, last_rain_count,
                           rain_per_tip, now)
  IN /\ lines' = IF r.popped THEN Tail(lines) ELSE lines
     /\ last' = [line |-> lines[1], exc |-> r.exc, pkt |-> data,
                 popped |-> r.popped,
                 emitted |-> r.exc = "" /\ Truthy(data) /\ fresh,
                 n |-> Len(yielded)]
     /\ prev' = history
     /\ IF r.exc # ""
          THEN /\ pc' = "raised"
               /\ error' = r.exc
               /\ UNCHANGED <<stats, last_rain_count, _last_pkt,
                              time_last_received, packet>>
          ELSE /\ UNCHANGED error
               /\ IF Truthy(data)
                    THEN /\ time_last_received' = now
                         /\ stats' = IF "curr_cnt0" \in DOMAIN data
                                       THEN _update_stats(stats, data.curr_cnt0,
                                              data.curr_cnt1, data.curr_cnt2,
                                              data.curr_cnt3)
                                       ELSE stats
                         /\ IF fresh
                              THEN /\ _last_pkt' = data
                                   /\ packet' = p.packet
                                   /\ last_rain_count' = p.last_rain_count
                                   /\ pc' = "yield"
                              ELSE /\ pc' = "create"
                                   /\ UNCHANGED <<_last_pkt, packet,
                                                  last_rain_count>>
                    ELSE /\ pc' = "create"
                         /\ UNCHANGED <<stats, last_rain_count, _last_pkt,
                                        time_last_received, packet>>

(* One iteration of  while lines  in PacketFactory.create, with the body   *)
(* of the loop of genLoopPackets that consumes what it yields.             *)
HandleLine ==
  /\ pc = "create"
  /\ IF lines = <<>>
       THEN /\ pc' = "drain"
            /\ UNCHANGED <<lines, stats, last_rain_count, _last_pkt,
                           time_last_received, packet, error, last, prev>>
       ELSE handle_data(parse_text(drv_of(channels, rain_per_tip, frequency,
                                          transm_to_store), lines[1], now))
  /\ UNCHANGED <<fnVars, cfgVars, mgrVars, envVars, transm_to_store, start_time, get_start,
                 yielded, record, summary>>

(* The consumer asks for the next packet.                                  *)
Resume ==
  /\ pc = "yield"
  /\ pc' = "create"
  /\ UNCHANGED <<fnVars, cfgVars, mgrVars, envVars, stats, transm_to_store, last_rain_count,
                 _last_pkt, lines, start_time, get_start, time_last_received,
                 packet, error, yielded, record, summary, last, prev>>

-----------------------------------------------------------------------------
(* The environment of the thread: the receiver process with the reader     *)
(* thread that queues its stderr lines, and the clock.                     *)

ProcWrite(l, maxLines, maxQueue) ==
  /\ procRunning
  /\ pc # "raised"
  /\ written < maxLines
  /\ Len(stderr_queue) < maxQueue
  /\ stderr_queue' = Append(stderr_queue, l)
  /\ written' = written + 1
  /\ UNCHANGED <<fnVars, cfgVars, mgrVars, now, procRunning, stats, transm_to_store,
                 last_rain_count, _last_pkt, pc, lines, start_time, get_start,
                 time_last_received, packet, error, yielded, record, summary, last,
                 prev>>

ProcExit ==
  /\ procRunning
  /\ pc # "raised"
  /\ procRunning' = FALSE
  /\ UNCHANGED <<fnVars, cfgVars, mgrVars, now, stderr_queue, written, stats, transm_to_store,
                 last_rain_count, _last_pkt, pc, lines, start_time, get_start,
                 time_last_received, packet, error, yielded, record, summary, last,
                 prev>>

(* Time passes by d seconds.  The steps of the thread take no time: the    *)
(* clock advances only while the thread is blocked in queue.get, for as    *)
(* long as the queue is empty and at most up to the time-out, or while it  *)
(* is suspended at a yield, where the consumer holds it at most maxHold    *)
(* seconds.  The clock stops at horizon.                                   *)
Tick(d, maxHold, horizon) ==
  /\ \/ /\ pc = "get"
        /\ stderr_queue = <<>>
        /\ now + d <= get_start + GET_TIMEOUT
     \/ /\ pc = "yield"
        /\ now + d <= time_last_received + maxHold
  /\ now + d <= horizon
  /\ now' = now + d
  /\ UNCHANGED <<fnVars, cfgVars, mgrVars, procRunning, stderr_queue, written, stats,
                 transm_to_store, last_rain_count, _last_pkt, pc, lines,
                 start_time, get_start, time_last_received, packet, error,
                 yielded, record, summary, last, prev>>

DriverStep ==
  GenLoopStart \/ WhileTest \/ DrainTest \/ QueueGet \/ QueueEmpty
  \/ HandleLine \/ Resume

-----------------------------------------------------------------------------
(* The read loop on a stream of lines of every kind.                       *)

MaxLines == 3
MaxQueue == 2
MaxHold == 10
MaxTime == 10
TickSteps == {10}
StartTime == 0

ChISS == [iss |-> 1, anemometer |-> 0, leaf_soil |-> 0, temp_hum_1 |-> 0,
          temp_hum_2 |-> 0, wind_channel |-> 1]
ChAll == [iss |-> 1, anemometer |-> 2, leaf_soil |-> 3, temp_hum_1 |-> 4,
          temp_hum_2 |-> 5, wind_channel |-> 2]

LoopConfigs ==
  {[channels |-> ChISS, frequency |-> "EU", bucket_type |-> 1,
    save_pct_good_per_transmitter |-> FALSE]}

(* An ISS rain-count message (type 0xE) on channel 1, no wind.             *)
RainFrame(c) == Frame(<<224, 0, 0, c, 1, 0>>)
(* An ISS temperature message (type 0x8) on channel 1, no wind.            *)
TempFrame == Frame(<<128, 0, 0, 51, 141, 0>>)

LoopLines ==
  {DataLine(RainFrame(c), <<7, 0, 0, 0>>) : c \in {0, 5, 120, 127}}
  \cup {DataLine(RainFrame(5), <<8, 0, 0, 0>>),
        DataLine(TempFrame, <<8, 0, 0, 0>>),
        DataLine(CorruptFrame(<<224, 0, 0, 5, 1, 0>>), <<9, 0, 0, 0>>),
        ChanLine(3, 431, 0),
        ChanLine(3, 20001, 0),
        TextLine("info")}

Init == \E cfg \in LoopConfigs : DriverInit(cfg, StartTime)

Next ==
  \/ DriverStep
  \/ \E l \in LoopLines : ProcWrite(l, MaxLines, MaxQueue)
  \/ ProcExit
  \/ \E d \in TickSteps : Tick(d, MaxHold, MaxTime)

Spec == Init /\ [][Next]_vars

(* C1: a data line with a nonzero CRC is dropped without ending the read   *)
(* loop: parsing it raises nothing, the line is removed from the buffer    *)
(* and no packet is made of it.                                            *)
C1_BadCrcNotFatal ==
  (last.line.kind = "data" /\ _check_crc(last.line.bytes))
    => (last.exc = "" /\ last.popped /\ ~last.emitted /\ pc # "raised")

(* C8: a non-empty decoded record is emitted exactly when it differs from  *)
(* the non-empty record decoded just before it, and _last_pkt is the most  *)
(* recent non-empty record.                                                *)
C8_Dedup ==
  /\ (last.exc = "" /\ Truthy(last.pkt))
       => (last.emitted <=> (last.pkt # prev.data))
  /\ _last_pkt = history.data
  /\ pc = "yield" => last.emitted

C8_Witness ==
  /\ last.exc = "" /\ Truthy(last.pkt)
  /\ last.pkt = prev.data
  /\ ~last.emitted
  /\ pc = "create"

(* A record that repeats the previous one but for a message counter is     *)
(* emitted.                                                                *)
C8_WitnessCounters ==
  /\ last.emitted /\ pc = "yield"
  /\ prev.data # None
  /\ "rain_count" \in DOMAIN last.pkt /\ "rain_count" \in DOMAIN prev.data
  /\ last.pkt.rain_count = prev.data.rain_count

(* C9: the rain of a packet made from a rain reading is                    *)
(* (count - previous count) mod 128 tips, 0 for the first reading, and     *)
(* last_rain_count is the count of the last such reading.                  *)
C9_RainDelta ==
  /\ (last.emitted /\ "rain_count" \in DOMAIN last.pkt)
       => LET c == last.pkt.rain_count
              tips == IF prev.rain = NoRainCount THEN 0 ELSE (c - prev.rain) % 128
          IN /\ c \in 0..127
             /\ tips \in 0..127
             /\ packet.rain = tips * rain_per_tip
  /\ last_rain_count = history.rain

C9_Witness ==
  /\ last.emitted /\ "rain_count" \in DOMAIN last.pkt
  /\ prev.rain = 120 /\ last.pkt.rain_count = 5
  /\ packet.rain = 13 * rain_per_tip

-----------------------------------------------------------------------------
(* The read loop over a long time, on a stream of few lines: a good data   *)
(* line, an information line, and channel reports with a small and with a  *)
(* large frequency error.                                                  *)

MaxStallLines == 2
StallSteps == {5, 10}
(* No behaviour reaches this time: every line received extends the time    *)
(* to the stalled error by at most the stall time-out and one drain.       *)
StallHorizon ==
  (MaxStallLines + 1) * (STALL_TIMEOUT + MAX_RUN_TIME + GET_TIMEOUT + MaxHold)

StallConfigs ==
  {[channels |-> ChISS, frequency |-> "US", bucket_type |-> 0,
    save_pct_good_per_transmitter |-> FALSE]}

StallLines ==
  {DataLine(RainFrame(5), <<7, 0, 0, 0>>),
   TextLine("info"),
   ChanLine(3, 431, 0),
   ChanLine(3, 20001, 0)}

InitStall == \E cfg \in StallConfigs : DriverInit(cfg, StartTime)

TickStall == \E d \in StallSteps : Tick(d, MaxHold, StallHorizon)

NextStall ==
  \/ DriverStep
  \/ \E l \in StallLines : ProcWrite(l, MaxStallLines, MaxQueue)
  \/ ProcExit
  \/ TickStall

SpecStall == InitStall /\ [][NextStall]_vars

(* The same with one line, which may also be a corrupt frame, and a        *)
(* coarser clock, for what must eventually                                 *)
(* happen: the thread runs whenever it can, the consumer asks for the      *)
(* next packet and the clock advances.                                     *)
MaxExitLines == 1
ExitSteps == {10}
ExitLines ==
  StallLines \cup {DataLine(CorruptFrame(<<224, 0, 0, 5, 1, 0>>), <<7, 0, 0, 0>>)}
ExitHorizon ==
  (MaxExitLines + 1) * (STALL_TIMEOUT + MAX_RUN_TIME + GET_TIMEOUT + MaxHold)

TickExit == \E d \in ExitSteps : Tick(d, MaxHold, ExitHorizon)

NextExit ==
  \/ DriverStep
  \/ \E l \in ExitLines : ProcWrite(l, MaxExitLines, MaxQueue)
  \/ ProcExit
  \/ TickExit

SpecExit == InitStall /\ [][NextExit]_vars

FairSpecExit == SpecExit /\ WF_vars(DriverStep) /\ WF_vars(TickExit)

(* C5: while the process runs, the loop reaches its stall test within one  *)
(* drain of get_stderr (its run time and one queue time-out, and the time  *)
(* the consumer holds a packet), so the time since the last record never   *)
(* exceeds the stall time-out by more than that, and the test raises the   *)
(* stalled error once more than 150 s have passed since the last record.   *)
C5_StallDetected ==
  /\ [](pc \in {"drain", "get", "create", "yield"}
          => now - start_time <= MAX_RUN_TIME + GET_TIMEOUT + MaxHold)
  /\ []((procRunning /\ pc \notin {"start", "raised"})
          => now - time_last_received
               <= STALL_TIMEOUT + MAX_RUN_TIME + GET_TIMEOUT + MaxHold)
  /\ [][(pc = "while" /\ pc' # "while" /\ procRunning
           /\ now - time_last_received > STALL_TIMEOUT)
          => (pc' = "raised" /\ error' = ERR_STALLED)]_vars
  /\ [][(pc' = "raised" /\ pc # "raised" /\ error' = ERR_STALLED)
          => (procRunning /\ now - time_last_received > STALL_TIMEOUT)]_vars

C5_Witness ==
  /\ pc = "raised" /\ error = ERR_STALLED
  /\ procRunning
  /\ written = MaxStallLines
  /\ now - time_last_received > STALL_TIMEOUT

(* C6 as stated: once the process has exited, the loop ends with the       *)
(* 'process is not running' error.                                         *)
C6_ExitRaisesNotRunning ==
  (~procRunning) ~> (pc = "raised" /\ error = ERR_NOT_RUNNING)

(* C6: once the process has exited, the loop ends with an error: with      *)
(* 'process is not running' at its next test of the process, unless the    *)
(* frame parser raises first on a line already taken from the queue; it    *)
(* never ends with the stalled error after the exit, and never without an  *)
(* error.                                                                  *)
C6_ExitEndsLoop ==
  /\ (~procRunning) ~> (pc = "raised")
  /\ [](pc = "raised" => error # "")
  /\ [][(~procRunning /\ pc # "raised" /\ pc' = "raised")
          => \/ pc = "while" /\ error' = ERR_NOT_RUNNING
             \/ pc = "create" /\ last'.exc # "" /\ error' = last'.exc]_vars
  /\ [][(~procRunning /\ pc = "while" /\ pc' # "while")
          => (pc' = "raised" /\ error' = ERR_NOT_RUNNING)]_vars

C6_Witness ==
  /\ ~procRunning
  /\ pc = "raised" /\ error = ERR_NOT_RUNNING
  /\ written > 0

-----------------------------------------------------------------------------
(* The frame parser and the payload decoder on buffers of lines of every   *)
(* shape: PacketFactory.create, consumed by a caller that collects what it *)
(* yields.                                                                 *)

MaxBuf == 2

ParseConfigs ==
  {[channels |-> ChISS, frequency |-> "EU", bucket_type |-> 1,
    save_pct_good_per_transmitter |-> FALSE],
   [channels |-> ChAll, frequency |-> "EU", bucket_type |-> 0,
    save_pct_good_per_transmitter |-> FALSE],
   [channels |-> ChAll, frequency |-> "US", bucket_type |-> 0,
    save_pct_good_per_transmitter |-> FALSE]}

(* Byte 0: the message type, the battery bit and the channel.              *)
Byte0(type, battery, ch) == type * 16 + battery * 8 + (ch - 1)

ParsePayloads ==
  {<<Byte0(type, battery, ch), w[1], w[2], d[1], d[2], d[3]>> :
     type \in {2, 4, 5, 6, 7, 8, 9, 10, 14, 15},
     battery \in {0, 1},
     ch \in {1, 2, 3, 4, 6},
     w \in {<<0, 0>>, <<6, 0>>, <<6, 255>>, <<6, 178>>, <<0, 5>>},
     d \in {<<5, 1, 0>>, <<0, 0, 0>>, <<255, 255, 64>>}}

ChanLines ==
  {ChanLine(idx, err, tr) :
     idx \in {0, 3, 5},
     err \in {-20001, -20000, -431, 431, 20000, 20001},
     tr \in {NoTransmitter, 0, 1, 4}}

ParseLines ==
  {DataLine(Frame(p), <<7, 6, 5, 4>>) : p \in ParsePayloads}
  \cup {DataLine(CorruptFrame(<<224, 0, 0, 5, 1, 0>>), <<7, 6, 5, 4>>),
        DataLine(CorruptFrame(<<232, 0, 0, 5, 1, 0>>), <<7, 6, 5, 4>>),
        HexLine(Frame(<<224, 0, 0, 5, 1, 0>>)),
        TextLine("chanid"), TextLine("info"), TextLine("blank")}
  \cup ChanLines

(* The lines of the buffers of more than one line.                         *)
BufLines ==
  {DataLine(RainFrame(5), <<7, 6, 5, 4>>),
   DataLine(TempFrame, <<7, 6, 5, 4>>),
   DataLine(CorruptFrame(<<224, 0, 0, 5, 1, 0>>), <<7, 6, 5, 4>>),
   DataLine(Frame(<<Byte0(14, 1, 1), 0, 0, 5, 1, 0>>), <<7, 6, 5, 4>>),
   ChanLine(3, 431, 0), ChanLine(3, 20001, 0), ChanLine(5, 431, NoTransmitter),
   TextLine("info"), TextLine("blank")}

RECURSIVE SeqsOf(_, _)
SeqsOf(S, n) ==
  IF n = 0 THEN {<<>>} ELSE {Append(s, x) : s \in SeqsOf(S, n - 1), x \in S}

ParseBuffers ==
  {<<l>> : l \in ParseLines}
  \cup UNION {SeqsOf(BufLines, n) : n \in 2..MaxBuf}

InitParse ==
  \E cfg \in ParseConfigs, buf \in ParseBuffers :
    LET x == ch_to_xmit(cfg.channels, _init_stats)
    IN /\ channels = cfg.channels
       /\ frequency = cfg.frequency
       /\ rain_per_tip = rain_per_tip_of(cfg.bucket_type)
       /\ transmitters = x.transmitters
       /\ tr_count = x.tr_count
       /\ _save_pct_good_per_transmitter = cfg.save_pct_good_per_transmitter
       /\ stats = x.stats
       /\ transm_to_store =
            x.stats.activeTrIds[rel_transm_to_store(StartTime, x.tr_count) + 1]
       /\ last_rain_count = NoRainCount
       /\ _last_pkt = None
       /\ now = StartTime
       /\ procRunning = TRUE
       /\ stderr_queue = <<>>
       /\ written = 0
       /\ pc = "create"
       /\ lines = buf
       /\ start_time = StartTime
       /\ get_start = StartTime
       /\ time_last_received = StartTime
       /\ packet = EmptyDict
       /\ error = ""
       /\ yielded = <<>>
       /\ record = EmptyDict
       /\ summary = NoSummary
       /\ last = NoLast
       /\ prev = NoPrev
       /\ NoManager
       /\ NoCalls

(* The parse result r of the first line of the buffer: the packet is       *)
(* yielded unless it is None.                                              *)
create_yield(r) ==
  /\ lines' = IF r.popped THEN Tail(lines) ELSE lines
  /\ last' = [line |-> lines[1], exc |-> r.exc, pkt |-> r.pkt,
              popped |-> r.popped,
              emitted |-> r.exc = "" /\ r.pkt # None,
              n |-> Len(yielded)]
  /\ IF r.exc # ""
       THEN pc' = "raised" /\ error' = r.exc /\ UNCHANGED yielded
       ELSE /\ UNCHANGED <<pc, error>>
            /\ yielded' = IF r.pkt # None THEN Append(yielded, r.pkt)
                          ELSE yielded

(* One iteration of  while lines  in PacketFactory.create.                 *)
CreateStep ==
  /\ pc = "create"
  /\ IF lines = <<>>
       THEN pc' = "done" /\ UNCHANGED <<lines, last, error, yielded>>
       ELSE create_yield(parse_text(drv_of(channels, rain_per_tip, frequency,
                                           transm_to_store), lines[1], now))
  /\ UNCHANGED <<fnVars, cfgVars, mgrVars, envVars, stats, transm_to_store, last_rain_count,
                 _last_pkt, start_time, get_start, time_last_received, packet,
                 record, summary, prev>>

NextParse == CreateStep

SpecParse == InitParse /\ [][NextParse]_vars

(* The decoding of the line in last: the channel and the battery bit of    *)
(* its byte 0, and the channels of the configured roles.                   *)
LastChannel == BitAnd(last.line.bytes[1], 7) + 1
LastBatteryBit == (last.line.bytes[1] \div 8) % 2
RoleChannels ==
  {channels.iss, channels.anemometer, channels.leaf_soil, channels.temp_hum_1,
   channels.temp_hum_2}
CounterKeys == {"curr_cnt0", "curr_cnt1", "curr_cnt2", "curr_cnt3"}
GoodDataLine == last.line.kind = "data" /\ ~_check_crc(last.line.bytes)

(* C2: a payload on a channel of no configured role is decoded without     *)
(* an error, to a reading with no observation.                             *)
C2_UnknownChannelNoRaise ==
  (GoodDataLine /\ DATA_IDENTIFIER(last.line) /\ LastChannel \notin RoleChannels)
    => /\ last.exc = ""
       /\ last.emitted
       /\ DOMAIN last.pkt \subseteq ({"channel"} \cup CounterKeys)

(* C3: every data line with a correct CRC on the channel of a configured   *)
(* role, whose payload is decoded without an error, yields a reading with  *)
(* channel = (byte0 & 7) + 1 and with the battery flag of the role of that *)
(* channel equal to bit 3 of byte 0, whether that bit is 0 or 1.           *)
C3_ChannelAndBattery ==
  (/\ GoodDataLine
   /\ LastChannel \in RoleChannels
   /\ parse_raw(channels, rain_per_tip, last.line.bytes).exc = "")
    => /\ last.exc = ""
       /\ last.emitted
       /\ last.pkt.channel = LastChannel
       /\ \E k \in {"bat_iss", "bat_anemometer", "bat_leaf_soil", "bat_th_1",
                    "bat_th_2"} :
            /\ k \in DOMAIN last.pkt
            /\ last.pkt[k] = LastBatteryBit

(* C4: a reading decoded on an ISS, anemometer or temperature/humidity     *)
(* channel has the wind speed and direction unless the raw wind speed      *)
(* (byte 1) and the raw direction (byte 2) are both zero.                  *)
C4_WindEmitted ==
  (/\ GoodDataLine /\ last.exc = "" /\ last.emitted
   /\ LastChannel \in {channels.iss, channels.anemometer, channels.temp_hum_1,
                       channels.temp_hum_2})
    => (({"wind_speed", "wind_dir"} \subseteq DOMAIN last.pkt)
          <=> ~(last.line.bytes[2] = 0 /\ last.line.bytes[3] = 0))

(* C7: a channel report, of either shape, raises the receiver error        *)
(* exactly when the absolute value of its FreqError exceeds 20000, and     *)
(* nothing is yielded for a line that raises.                              *)
C7_FreqError ==
  (last.line.kind = "chan")
    => /\ (last.exc = ERR_RADIO)
            <=> (last.line.err > 20000 \/ last.line.err < -20000)
       /\ last.exc \in {"", ERR_RADIO}
       /\ last.exc # ""
            => /\ ~last.emitted
               /\ Len(yielded) = last.n
               /\ pc = "raised" /\ error = ERR_RADIO
       /\ last.exc = "" => (pc # "raised" /\ last.popped)

C7_Witness ==
  /\ last.line.kind = "chan"
  /\ last.line.tr = NoTransmitter
  /\ last.line.err = -20001
  /\ frequency = "US"
  /\ Len(yielded) = last.n
  /\ pc = "raised" /\ error = ERR_RADIO

-----------------------------------------------------------------------------
(* The link quality statistics.  A percentage is the exact fraction        *)
(* <<num, den>>; max_count is the integer the floor division yields.       *)

pct_good_key == <<"pct_good_0", "pct_good_1", "pct_good_2", "pct_good_3">>

(* A pass that computes max_count and count of the slot and leaves missed  *)
(* as it was.                                                              *)
summaries_slot_stale(a, i, period) ==
  LET st == a.stats
      x  == st.activeTrIds[i + 1]
      max_count == (period * 16) \div loop_times[x + 1]
      count == st.curr_cnt[i + 1] - st.last_cnt[i + 1]
      st2 == [st EXCEPT !.max_count[i + 1] = max_count, !.count[i + 1] = count]
  IN IF st.curr_cnt[i + 1] > 0
       THEN IF x + 1 > Len(loop_times) THEN [a EXCEPT !.exc = "IndexError"]
            ELSE IF count > 0 /\ max_count = 0
              THEN [a EXCEPT !.stats = st2, !.exc = "ZeroDivisionError"]
            ELSE IF count > 0
              THEN [stats |-> [st2 EXCEPT !.pct_good[i + 1] =
                                            Frac(100 * count, max_count)],
                    exc |-> "",
                    total_count |-> a.total_count + count,
                    total_missed |-> a.total_missed + (max_count - count),
                    total_max_count |-> a.total_max_count + max_count]
              ELSE [a EXCEPT !.stats = st2]
       ELSE a

(* One pass of the loop  for i in range(0, 4)  of _update_summaries on     *)
(* a = [stats, exc, total_count, total_missed, total_max_count].           *)
summaries_slot(a, i, period) ==
  LET st == a.stats
      x  == st.activeTrIds[i + 1]
      max_count == (period * 16) \div loop_times[x + 1]
      count == st.curr_cnt[i + 1] - st.last_cnt[i + 1]
      st2 == [st EXCEPT !.max_count[i + 1] = max_count, !.count[i + 1] = count]
      st3 == [st2 EXCEPT !.missed[i + 1] = max_count - count]
  IN IF st.curr_cnt[i + 1] > 0
       THEN IF x + 1 > Len(loop_times) THEN [a EXCEPT !.exc = "IndexError"]
            ELSE IF count > 0
              THEN IF max_count = 0
                     THEN [a EXCEPT !.stats = st3, !.exc = "ZeroDivisionError"]
                     ELSE [stats |-> [st3 EXCEPT !.pct_good[i + 1] =
                                                   Frac(100 * count, max_count)],
                           exc |-> "",
                           total_count |-> a.total_count + count,
                           total_missed |-> a.total_missed + (max_count - count),
                           total_max_count |-> a.total_max_count + max_count]
              ELSE [a EXCEPT !.stats = st2]
       ELSE a

RECURSIVE summaries_loop(_, _, _)
summaries_from(a, i, period) ==
  IF i = 4 \/ a.exc # "" THEN a
  ELSE summaries_loop(summaries_slot(a, i, period), i + 1, period)

summaries_loop(acc, i, period) ==
  CHOOSE y \in {summaries_from(a, i, period) : a \in {acc}} : TRUE

(* The totals: pct_good_all is set only if it is not None already.         *)
summaries_total(a) ==
  IF a.exc = "" /\ a.total_max_count > 0 /\ a.stats.pct_good_all # Unset
    THEN [stats |-> [a.stats EXCEPT !.pct_good_all =
                       Frac(100 * a.total_count, a.total_max_count)],
          exc |-> ""]
    ELSE [stats |-> a.stats, exc |-> a.exc]

summaries_of(acc) == CHOOSE y \in {summaries_total(a) : a \in {acc}} : TRUE

(* _update_summaries at time t: [stats, exc].                              *)
_update_summaries(st, t) ==
  IF st.last_ts > 0
    THEN summaries_of(summaries_loop(
           [stats |-> [st EXCEPT !.curr_ts = t], exc |-> "", total_count |-> 0,
            total_missed |-> 0, total_max_count |-> 0],
           0, t - st.last_ts))
    ELSE [stats |-> [st EXCEPT !.curr_ts = t], exc |-> ""]

_reset_stats(st) ==
  [st EXCEPT !.last_ts = st.curr_ts,
             !.last_cnt = st.curr_cnt,
             !.pct_good = <<Unset, Unset, Unset, Unset>>,
             !.pct_good_all = Unset]

(* The fields of the sensor map that new_archive_record fills with the     *)
(* percentage of transmitter tr.                                           *)
pct_good_fields(sensor_map, n) ==
  {k \in DOMAIN sensor_map :
     \E tr \in 0..3 : /\ sensor_map[k] = pct_good_key[tr + 1]
                      /\ (tr = 0 /\ n > 1) \/ (tr > 0 /\ tr <= n)}

pct_good_of(st, name) ==
  st.pct_good[CHOOSE tr \in 1..4 : pct_good_key[tr] = name]

(* What new_archive_record stores in event.record.                         *)
stored_summaries(st, sensor_map, save, n) ==
  IF st.pct_good_all # Unset
    THEN [rxCheckPercent |-> st.pct_good_all]
         @@ (IF save
               THEN [k \in pct_good_fields(sensor_map, n) |->
                       pct_good_of(st, sensor_map[k])]
               ELSE EmptyDict)
    ELSE EmptyDict

(* new_archive_record, u being what _update_summaries did.                 *)
archive_record(u) ==
  /\ summary' = [n |-> summary.n + 1, first |-> ~(stats.last_ts > 0),
                 exc |-> u.exc, stats |-> u.stats]
  /\ IF u.exc # ""
       THEN /\ stats' = u.stats
            /\ error' = u.exc
            /\ record' = EmptyDict
       ELSE /\ stats' = _reset_stats(u.stats)
            /\ record' = stored_summaries(u.stats, DEFAULT_SENSOR_MAP,
                                          _save_pct_good_per_transmitter,
                                          tr_count)
            /\ UNCHANGED error

MaxArchives == 3
StatsStart == 1000
StatsSteps == {1, 5, 300}

StatsCounters ==
  {<<0, 0, 0, 0>>, <<10, 0, 0, 0>>, <<100, 0, 0, 0>>, <<100, 50, 0, 0>>,
   <<128, 0, 0, 0>>, <<127, 60, 3, 1>>}

StatsConfigs ==
  {[channels |-> ch, frequency |-> "EU", bucket_type |-> 1,
    save_pct_good_per_transmitter |-> save] :
     ch \in {ChISS, ChAll}, save \in BOOLEAN}

NewArchiveRecord ==
  /\ error = ""
  /\ summary.n < MaxArchives
  /\ archive_record(_update_summaries(stats, now))
  /\ UNCHANGED <<fnVars, cfgVars, mgrVars, envVars, transm_to_store, last_rain_count, _last_pkt,
                 pc, lines, start_time, get_start, time_last_received, packet,
                 yielded, last, prev>>

(* A data record with the message counters c arrives: lines 998-999.       *)
ReceiveCounters(c) ==
  /\ error = ""
  /\ stats' = _update_stats(stats, c[1], c[2], c[3], c[4])
  /\ UNCHANGED <<fnVars, cfgVars, mgrVars, envVars, transm_to_store, last_rain_count, _last_pkt,
                 pc, lines, start_time, get_start, time_last_received, packet,
                 error, yielded, record, summary, last, prev>>

(* Between two archive events the clock advances once.                     *)
TickStats(d) ==
  /\ error = ""
  /\ now = (IF summary.n = 0 THEN StatsStart ELSE stats.curr_ts)
  /\ now' = now + d
  /\ UNCHANGED <<fnVars, cfgVars, mgrVars, procRunning, stderr_queue, written, stats,
                 transm_to_store, last_rain_count, _last_pkt, pc, lines,
                 start_time, get_start, time_last_received, packet, error,
                 yielded, record, summary, last, prev>>

InitStats == \E cfg \in StatsConfigs : DriverInit(cfg, StatsStart)

NextStats ==
  \/ NewArchiveRecord
  \/ \E c \in StatsCounters : ReceiveCounters(c)
  \/ \E d \in StatsSteps : TickStats(d)

SpecStats == InitStats /\ [][NextStats]_vars

(* The transmitters counted at the last archive event, and the totals of   *)
(* their counts.                                                           *)
Counted == {i \in 1..4 : summary.stats.curr_cnt[i] > 0 /\ summary.stats.count[i] > 0}
RECURSIVE SumOver(_, _)
SumOver(f, S) ==
  IF S = {} THEN 0 ELSE LET i == CHOOSE j \in S : TRUE IN f[i] + SumOver(f, S \ {i})

(* C10: at an archive event that is not the first, when a transmitter      *)
(* received messages and the total of max_count is positive, pct_good_all  *)
(* is 100 * (sum of count) / (sum of max_count), and the archive record    *)
(* has it as rxCheckPercent.                                               *)
C10_PctGoodAll ==
  (/\ summary.n > 0 /\ ~summary.first /\ summary.exc = ""
   /\ Counted # {}
   /\ SumOver(summary.stats.max_count, Counted) > 0)
    => LET pct == Frac(100 * SumOver(summary.stats.count, Counted),
                       SumOver(summary.stats.max_count, Counted))
       IN /\ summary.stats.pct_good_all = pct
          /\ "rxCheckPercent" \in DOMAIN record
          /\ record.rxCheckPercent = pct

-----------------------------------------------------------------------------
(* The per-transmitter summaries of an archive event.                      *)

(* The step is an archive event.                                           *)
ArchiveEvent == summary'.n = summary.n + 1

(* Slot i (1..4) counts a configured transmitter.                          *)
Tracked(st, i) == st.activeTrIds[i] # NOT_ACTIVE

(* What the claim C11 has an archive event compute from the statistics st  *)
(* at time t, out being the statistics after _update_summaries.            *)
SlotSummary(st, out, t, i) ==
  LET max_count == ((t - st.last_ts) * 16) \div loop_times[st.activeTrIds[i] + 1]
      count == st.curr_cnt[i] - st.last_cnt[i]
  IN /\ out.max_count[i] = max_count
     /\ out.count[i] = count
     /\ IF count > 0
          THEN /\ out.missed[i] = max_count - count
               /\ out.pct_good[i] # Unset
               /\ out.pct_good[i][1] * max_count = 100 * count * out.pct_good[i][2]
          ELSE out.pct_good[i] = Unset

NothingComputed(st, out) ==
  /\ out.max_count = st.max_count
  /\ out.count = st.count
  /\ out.missed = st.missed
  /\ out.pct_good = st.pct_good

(* C11: at an archive event that is not the first, every tracked slot i    *)
(* with curr_cnt[i] > 0 gets max_count[i] = period // loop time of its     *)
(* channel and count[i] = curr_cnt[i] - last_cnt[i], and, only when        *)
(* count[i] > 0, missed[i] = max_count[i] - count[i] and                   *)
(* pct_good[i] = 100 * count[i] / max_count[i], pct_good[i] staying unset  *)
(* otherwise; at the first event nothing is computed.                      *)
C11_SlotSummaries ==
  [][ArchiveEvent =>
       IF stats.last_ts > 0
         THEN \A i \in 1..4 :
                (Tracked(stats, i) /\ stats.curr_cnt[i] > 0)
                  => SlotSummary(stats, summary'.stats, now, i)
         ELSE NothingComputed(stats, summary'.stats)]_vars

(* The same for the archive events that _update_summaries completes.       *)
C11_SlotSummariesCompleted ==
  [][(ArchiveEvent /\ summary'.exc = "") =>
       IF stats.last_ts > 0
         THEN \A i \in 1..4 :
                (Tracked(stats, i) /\ stats.curr_cnt[i] > 0)
                  => SlotSummary(stats, summary'.stats, now, i)
         ELSE NothingComputed(stats, summary'.stats)]_vars

(* The example: period 300 s, loop time 2.5625 s, 100 messages.            *)
C11_Example ==
  /\ summary.n > 0 /\ summary.exc = ""
  /\ summary.stats.curr_ts - summary.stats.last_ts = 300
  /\ summary.stats.activeTrIds[1] = 0
  /\ summary.stats.count[1] = 100
  /\ summary.stats.max_count[1] = 117
  /\ summary.stats.missed[1] = 17
  /\ summary.stats.pct_good[1] = <<10000, 117>>

(* C12: each pct_good[i] is unset or between 0 and 100, in the statistics  *)
(* an archive event computes and in those it leaves.                       *)
C12_PctGoodRange ==
  \A st \in {stats, summary.stats} :
    \A i \in 1..4 :
      \/ st.pct_good[i] = Unset
      \/ /\ st.pct_good[i][2] > 0
         /\ 0 <= st.pct_good[i][1]
         /\ st.pct_good[i][1] <= 100 * st.pct_good[i][2]

(* C13: _update_summaries never fails with a division by zero.             *)
C13_NoDivisionByZero ==
  summary.exc # "ZeroDivisionError" /\ error # "ZeroDivisionError"

-----------------------------------------------------------------------------
(* The process supervisor: the process writing to its two pipes, the two   *)
(* AsyncReader threads, get_stderr with its consumer, and shutdown.        *)

MaxPipeLines == 2
MaxReaderQueue == 3
MaxAfterStop == 2
ReaderHorizon == 20

(* What readline returns at the end of the stream, as it is queued.        *)
EofBytes == TextLine("eof")

(* The k-th line the process writes to stream s.                           *)
StreamLine(s, k) ==
  IF s = "stderr" THEN DataLine(RainFrame(5), <<k, 0, 0, 0>>)
  ELSE TextLine("info")

PipeWrite(s) ==
  /\ procRunning
  /\ Len(wrote[s]) < MaxPipeLines
  /\ pipe' = [pipe EXCEPT ![s] = Append(@, StreamLine(s, Len(wrote[s]) + 1))]
  /\ wrote' = [wrote EXCEPT ![s] = Append(@, StreamLine(s, Len(wrote[s]) + 1))]
  /\ UNCHANGED <<fnVars, cfgVars, envVars, stats, transm_to_store, last_rain_count,
                 _last_pkt, pc, lines, start_time, get_start,
                 time_last_received, packet, error, yielded, record, summary,
                 last, prev, config, python3, stray, reader, stdout_queue,
                 shutdown, handed>>

(* Another instance of the receiver program is started outside the driver. *)
StrayStart ==
  /\ ~stray
  /\ shutdown.pc = "idle"
  /\ stray' = TRUE
  /\ UNCHANGED <<fnVars, cfgVars, envVars, stats, transm_to_store, last_rain_count,
                 _last_pkt, pc, lines, start_time, get_start,
                 time_last_received, packet, error, yielded, record, summary,
                 last, prev, config, python3, pipe, wrote, reader,
                 stdout_queue, shutdown, handed>>

(* AsyncReader.run up to the loop: self._running = True.                   *)
ReaderBegin(s) ==
  /\ reader[s].pc = "new"
  /\ reader' = [reader EXCEPT ![s].pc = "readline", ![s]._running = TRUE]
  /\ UNCHANGED <<fnVars, cfgVars, envVars, stats, transm_to_store, last_rain_count,
                 _last_pkt, pc, lines, start_time, get_start,
                 time_last_received, packet, error, yielded, record, summary,
                 last, prev, config, python3, stray, pipe, wrote,
                 stdout_queue, shutdown, handed>>

(* self._queue.put(line) of the reader of stream s.                        *)
queue_put(s, l) ==
  /\ Len(IF s = "stderr" THEN stderr_queue ELSE stdout_queue) < MaxReaderQueue
  /\ reader[s].after_stop < MaxAfterStop
  /\ IF s = "stderr"
       THEN stderr_queue' = Append(stderr_queue, l) /\ UNCHANGED stdout_queue
       ELSE stdout_queue' = Append(stdout_queue, l) /\ UNCHANGED stderr_queue
  /\ reader' = [reader EXCEPT
                  ![s].pc = "test",
                  ![s].after_stop = IF reader[s].stop_called THEN @ + 1 ELSE @]

(* The end of the stream ends iter(self._fd.readline, ''): readline        *)
(* returns '' under Python 2 and b'' under Python 3, and b'' == '' is      *)
(* False.                                                                  *)
is_sentinel(py3) == ~py3

(* The stream has reached its end: the process has exited and the pipe is  *)
(* drained.                                                                *)
AtEof(s) == ~procRunning /\ pipe[s] = <<>>

(* One call of readline by iter(), and the loop body up to the put: the    *)
(* call blocks while the pipe is empty and open.                           *)
ReaderReadPut(s) ==
  /\ reader[s].pc = "readline"
  /\ IF pipe[s] # <<>>
       THEN /\ queue_put(s, Head(pipe[s]))
            /\ pipe' = [pipe EXCEPT ![s] = Tail(@)]
       ELSE /\ AtEof(s)
            /\ UNCHANGED pipe
            /\ IF is_sentinel(python3)
                 THEN /\ reader' = [reader EXCEPT ![s].pc = "done"]
                      /\ UNCHANGED <<stderr_queue, stdout_queue>>
                 ELSE queue_put(s, EofBytes)
  /\ UNCHANGED <<fnVars, cfgVars, now, procRunning, written, stats, transm_to_store,
                 last_rain_count, _last_pkt, pc, lines, start_time, get_start,
                 time_last_received, packet, error, yielded, record, summary,
                 last, prev, config, python3, stray, wrote, shutdown, handed>>

(* if not self._running: break                                             *)
ReaderTest(s) ==
  /\ reader[s].pc = "test"
  /\ reader' = [reader EXCEPT
                  ![s].pc = IF ~reader[s]._running THEN "done" ELSE "readline"]
  /\ UNCHANGED <<fnVars, cfgVars, envVars, stats, transm_to_store, last_rain_count,
                 _last_pkt, pc, lines, start_time, get_start,
                 time_last_received, packet, error, yielded, record, summary,
                 last, prev, config, python3, stray, pipe, wrote,
                 stdout_queue, shutdown, handed>>

(* AsyncReader.stop_running                                                *)
stop_running(r) == [r EXCEPT !._running = FALSE, !.stop_called = TRUE]

(* ProcManager.get_pid: the instances pidof finds.  check_output raises    *)
(* CalledProcessError when pidof finds none (exit status 1).               *)
get_pid(managed, other) ==
  (IF managed THEN {"managed"} ELSE {}) \cup (IF other THEN {"stray"} ELSE {})

(* shutdown is called by closePort from the thread that runs the read      *)
(* loop: when the loop is not entered, has ended, or is suspended with a   *)
(* batch.                                                                  *)
ShutdownStopStderr ==
  /\ shutdown.pc = "idle"
  /\ pc \in {"start", "create", "raised"}
  /\ reader' = [reader EXCEPT !["stderr"] = stop_running(@)]
  /\ shutdown' = [shutdown EXCEPT !.pc = "stderr_stopped"]
  /\ UNCHANGED <<fnVars, cfgVars, envVars, stats, transm_to_store, last_rain_count,
                 _last_pkt, pc, lines, start_time, get_start,
                 time_last_received, packet, error, yielded, record, summary,
                 last, prev, config, python3, stray, pipe, wrote,
                 stdout_queue, handed>>

ShutdownStopStdout ==
  /\ shutdown.pc = "stderr_stopped"
  /\ reader' = [reader EXCEPT !["stdout"] = stop_running(@)]
  /\ shutdown' = [shutdown EXCEPT !.pc = "stopped"]
  /\ UNCHANGED <<fnVars, cfgVars, envVars, stats, transm_to_store, last_rain_count,
                 _last_pkt, pc, lines, start_time, get_start,
                 time_last_received, packet, error, yielded, record, summary,
                 last, prev, config, python3, stray, pipe, wrote,
                 stdout_queue, handed>>

(* pid_list = self.get_pid("rtldavis") and the kill of each.               *)
ShutdownKill ==
  /\ shutdown.pc = "stopped"
  /\ IF get_pid(procRunning, stray) = {}
       THEN /\ shutdown' = [pc |-> "raised", exc |-> "CalledProcessError"]
            /\ UNCHANGED <<procRunning, stray>>
       ELSE /\ shutdown' = [shutdown EXCEPT !.pc = "done"]
            /\ procRunning' = FALSE
            /\ stray' = FALSE
  /\ UNCHANGED <<fnVars, cfgVars, now, stderr_queue, written, stats, transm_to_store,
                 last_rain_count, _last_pkt, pc, lines, start_time, get_start,
                 time_last_received, packet, error, yielded, record, summary,
                 last, prev, config, python3, pipe, wrote, reader,
                 stdout_queue, handed>>

(* The consumer of get_stderr takes the batch it yielded.                  *)
TakeBatch ==
  /\ pc = "create"
  /\ handed' = handed \o lines
  /\ lines' = <<>>
  /\ pc' = "drain"
  /\ UNCHANGED <<fnVars, cfgVars, envVars, stats, transm_to_store, last_rain_count,
                 _last_pkt, start_time, get_start, time_last_received, packet,
                 error, yielded, record, summary, last, prev, config, python3,
                 stray, pipe, wrote, reader, stdout_queue, shutdown>>

ConsumerStep ==
  /\ shutdown.pc = "idle"
  /\ \/ GenLoopStart
     \/ WhileTest
     \/ DrainTest
     \/ QueueGet
     \/ QueueEmpty
     \/ TakeBatch

TickReaders == \E d \in TickSteps : Tick(d, MaxHold, ReaderHorizon)

InitReaders ==
  \E cfg \in StallConfigs, py \in BOOLEAN :
    DriverFields(cfg, StartTime) /\ ManagerStarted(py) /\ NoCalls

NextReaders ==
  \/ \E s \in Streams : PipeWrite(s)
  \/ ProcExit
  \/ StrayStart
  \/ \E s \in Streams : ReaderBegin(s)
  \/ \E s \in Streams : ReaderReadPut(s)
  \/ \E s \in Streams : ReaderTest(s)
  \/ ConsumerStep
  \/ ShutdownStopStderr
  \/ ShutdownStopStdout
  \/ ShutdownKill
  \/ TickReaders

SpecReaders == InitReaders /\ [][NextReaders]_vars

(* C14: once stop_running has been called on a reader, the reader puts at  *)
(* most one further line on its queue, and after that line it is at its    *)
(* test of the flag, which ends it, or has ended.                          *)
C14_ReadersStop ==
  \A s \in Streams :
    reader[s].stop_called
      => /\ reader[s].after_stop <= 1
         /\ reader[s].after_stop = 1
              => (reader[s].pc \in {"test", "done"} /\ ~reader[s]._running)

IsPrefix(p, q) == Len(p) <= Len(q) /\ SubSeq(q, 1, Len(p)) = p

(* The lines of q that were read from a pipe.                              *)
LinesRead(q) == SelectSeq(q, LAMBDA l : l # EofBytes)

(* C15: per stream, every line the reader has read is on the queue or was  *)
(* taken from it, in the order written, so that with the lines still in    *)
(* the pipe they are the lines the process wrote; the lines get_stderr     *)
(* has handed to its consumer are a prefix of the lines written to         *)
(* stderr; and a batch holds at most one line.                             *)
C15_LinesInOrder ==
  /\ LinesRead(handed \o lines \o stderr_queue) \o pipe["stderr"]
       = wrote["stderr"]
  /\ LinesRead(stdout_queue) \o pipe["stdout"] = wrote["stdout"]
  /\ IsPrefix(handed \o lines, wrote["stderr"])
  /\ Len(lines) <= 1

(* The batches of get_stderr: one line of the queue, or none exactly when  *)
(* the wait timed out.                                                     *)
C15_Batches ==
  [][(pc = "get" /\ pc' = "create")
       => /\ Len(lines') <= 1
          /\ (lines' = <<>>) <=> (stderr_queue = <<>>
                                   /\ get_timed_out(now, get_start))
          /\ lines' # <<>> => lines' = <<Head(stderr_queue)>>]_vars

(* C16: when readline reports the end of the stream, run leaves its loop   *)
(* and puts nothing on the queue.                                          *)
C16_ReaderEndsAtEof ==
  [][\A s \in Streams :
       (reader[s].pc = "readline" /\ AtEof(s) /\ reader'[s].pc # "readline")
         => /\ reader'[s].pc = "done"
            /\ UNCHANGED <<stderr_queue, stdout_queue>>]_vars

(* C20: shutdown never raises, and when it completes no instance of the    *)
(* process is running.                                                     *)
C20_ShutdownCompletes ==
  /\ shutdown.exc = ""
  /\ shutdown.pc # "raised"
  /\ shutdown.pc = "done" => (~procRunning /\ ~stray)

-----------------------------------------------------------------------------
(* Construction: RtldavisDriver.__init__ reading the driver section of     *)
(* the configuration.                                                      *)

MaxChannel == 9

Roles == {"iss", "anemometer", "leaf_soil", "temp_hum_1", "temp_hum_2"}

FrequencyOptions == {"US", "NZ", "EU", "AU"}
BucketOptions == {0, 1, 2}

(* The five <role>_channel options of the section, after int().            *)
ChannelOptions(i, a, l, t1, t2) ==
  [iss |-> i, anemometer |-> a, leaf_soil |-> l, temp_hum_1 |-> t1,
   temp_hum_2 |-> t2]

ConstructConfigs ==
  {[frequency |-> "US", bucket_type |-> 0,
    channels |-> ChannelOptions(i, a, l, t1, t2)] :
     i \in 0..MaxChannel, a \in 0..MaxChannel, l \in 0..MaxChannel,
     t1 \in 0..MaxChannel, t2 \in 0..MaxChannel}
  \cup
  {[frequency |-> f, bucket_type |-> b, channels |-> ch] :
     f \in FrequencyOptions, b \in BucketOptions,
     ch \in {ChannelOptions(1, 0, 0, 0, 0), ChannelOptions(1, 2, 3, 4, 5),
             ChannelOptions(0, 2, 0, 0, 0), ChannelOptions(2, 2, 0, 0, 0),
             ChannelOptions(1, 9, 0, 0, 0), ChannelOptions(-1, 0, 0, 0, 0),
             ChannelOptions(1, 0, -1, 0, 0)}}

ERR_BUCKET == "ValueError: unsupported rain bucket type"
ERR_FREQUENCY == "ValueError: invalid frequency"
ERR_SHIFT == "ValueError: negative shift count"
ERR_START == "WeeWxIOError: failed to start process"

(* channels as __init__ builds it: the five options and wind_channel.      *)
channels_of(opt) ==
  [iss |-> opt.iss, anemometer |-> opt.anemometer,
   leaf_soil |-> opt.leaf_soil, temp_hum_1 |-> opt.temp_hum_1,
   temp_hum_2 |-> opt.temp_hum_2,
   wind_channel |-> IF opt.anemometer = 0 THEN opt.iss ELSE opt.anemometer]

(* 1 << (ch - 1) raises ValueError for a negative shift count: the ISS     *)
(* channel is shifted unconditionally, the others when they are not 0.     *)
negative_shift(ch) ==
  \/ ch.iss - 1 < 0
  \/ \E r \in Roles \ {"iss"} : ch[r] # 0 /\ ch[r] - 1 < 0

(* The object before __init__ has run, with the section cfg to read.       *)
InitConstruct ==
  \E cfg \in ConstructConfigs, other \in BOOLEAN :
    /\ config = cfg
    /\ stray = other
    /\ python3 = TRUE
    /\ channels = EmptyDict
    /\ frequency = ""
    /\ rain_per_tip = 0
    /\ transmitters = 0
    /\ tr_count = 0
    /\ _save_pct_good_per_transmitter = FALSE
    /\ stats = _init_stats
    /\ transm_to_store = NOT_ACTIVE
    /\ last_rain_count = NoRainCount
    /\ _last_pkt = None
    /\ now = StartTime
    /\ procRunning = FALSE
    /\ stderr_queue = <<>>
    /\ written = 0
    /\ pc = "new"
    /\ lines = <<>>
    /\ start_time = StartTime
    /\ get_start = StartTime
    /\ time_last_received = StartTime
    /\ packet = EmptyDict
    /\ error = ""
    /\ yielded = <<>>
    /\ record = EmptyDict
    /\ summary = NoSummary
    /\ last = NoLast
    /\ prev = NoPrev
    /\ pipe = [s \in Streams |-> <<>>]
    /\ wrote = [s \in Streams |-> <<>>]
    /\ reader = [s \in Streams |-> NewReader]
    /\ stdout_queue = <<>>
    /\ shutdown = [pc |-> "idle", exc |-> ""]
    /\ handed = <<>>
    /\ NoCalls

(* __init__ leaves with the exception exc before ProcManager.startup.      *)
ConstructRaise(exc) ==
  /\ pc' = "raised"
  /\ error' = exc
  /\ UNCHANGED <<procRunning, stray>>

(* ProcManager.startup: the instances pidof finds are killed, then Popen   *)
(* starts the process, or fails with OSError.                              *)
startup(popen_ok) ==
  /\ stray' = FALSE
  /\ IF popen_ok
       THEN /\ procRunning' = TRUE
            /\ pc' = "start"
            /\ UNCHANGED error
       ELSE /\ UNCHANGED procRunning
            /\ pc' = "raised"
            /\ error' = ERR_START

(* RtldavisDriver.__init__.                                                *)
Construct ==
  /\ pc = "new"
  /\ IF config.bucket_type \notin {0, 1}
       THEN /\ ConstructRaise(ERR_BUCKET)
            /\ UNCHANGED <<cfgVars, stats>>
     ELSE IF config.frequency \notin {"US", "NZ", "EU"}
       THEN /\ ConstructRaise(ERR_FREQUENCY)
            /\ rain_per_tip' = rain_per_tip_of(config.bucket_type)
            /\ stats' = _init_stats
            /\ UNCHANGED <<channels, frequency, transmitters, tr_count,
                           _save_pct_good_per_transmitter>>
     ELSE IF negative_shift(config.channels)
       THEN /\ ConstructRaise(ERR_SHIFT)
            /\ rain_per_tip' = rain_per_tip_of(config.bucket_type)
            /\ stats' = _init_stats
            /\ frequency' = config.frequency
            /\ channels' = channels_of(config.channels)
            /\ UNCHANGED <<transmitters, tr_count,
                           _save_pct_good_per_transmitter>>
     ELSE LET x == ch_to_xmit(config.channels, _init_stats)
          IN /\ rain_per_tip' = rain_per_tip_of(config.bucket_type)
             /\ stats' = x.stats
             /\ frequency' = config.frequency
             /\ channels' = channels_of(config.channels)
             /\ transmitters' = x.transmitters
             /\ tr_count' = x.tr_count
             /\ UNCHANGED _save_pct_good_per_transmitter
             /\ \E popen_ok \in BOOLEAN : startup(popen_ok)
  /\ UNCHANGED <<fnVars, now, stderr_queue, written, transm_to_store, last_rain_count,
                 _last_pkt, lines, start_time, get_start, time_last_received,
                 packet, yielded, record, summary, last, prev, config,
                 python3, pipe, wrote, reader, stdout_queue, shutdown,
                 handed>>

NextConstruct == Construct

SpecConstruct == InitConstruct /\ [][NextConstruct]_vars

(* ProcManager.startup was called by __init__.                             *)
startup_called == pc = "start" \/ error = ERR_START

(* The configuration errors: a frequency that is not US, NZ or EU, a rain  *)
(* bucket type that is not 0 or 1, a channel outside 0..8, an ISS that is  *)
(* not assigned, two roles on one channel.                                 *)
valid_channel(c) == c \in 0..8

duplicate_channels(ch) ==
  \E r1, r2 \in Roles : r1 # r2 /\ ch[r1] # 0 /\ ch[r1] = ch[r2]

config_error(cfg) ==
  \/ cfg.frequency \notin {"US", "NZ", "EU"}
  \/ cfg.bucket_type \notin {0, 1}
  \/ \E r \in Roles : ~valid_channel(cfg.channels[r])
  \/ cfg.channels.iss = 0
  \/ duplicate_channels(cfg.channels)

(* C17: a construction from a section with a configuration error ends with *)
(* an exception and without a call of ProcManager.startup.                 *)
C17_BadConfigRejected ==
  (pc # "new" /\ config_error(config))
    => (pc = "raised" /\ ~startup_called /\ ~procRunning)

(* The channels that have a role, and their number below c.                *)
assigned(ch) == {ch[r] : r \in Roles} \ {0}

rank(ch, c) == Cardinality({d \in assigned(ch) : d < c})

RECURSIVE mask_of(_)
mask_of(S) ==
  IF S = {} THEN 0
  ELSE LET c == CHOOSE c \in S : TRUE IN 2 ^ (c - 1) + mask_of(S \ {c})

(* The five roles on channels 0..8 with the ISS assigned.                  *)
roles_assigned(ch) ==
  /\ \A r \in Roles : valid_channel(ch[r])
  /\ ch.iss # 0

(* C18: after a construction with the five roles on channels 0..8 and the  *)
(* ISS assigned, bit c - 1 of the mask is set exactly for the channels c   *)
(* that have a role, tr_count is the number of those channels, and         *)
(* activeTrIds lists their ids c - 1 in ascending order, followed by 9.    *)
C18_ChannelMask ==
  (pc = "start" /\ roles_assigned(config.channels))
    => /\ transmitters = mask_of(assigned(config.channels))
       /\ tr_count = Cardinality(assigned(config.channels))
       /\ \A c \in assigned(config.channels) :
            stats.activeTrIds[rank(config.channels, c) + 1] = c - 1
       /\ \A k \in 1..8 :
            k > Cardinality(assigned(config.channels))
              => stats.activeTrIds[k] = NOT_ACTIVE

(* The same for roles on distinct channels.                                *)
C18_DistinctChannels ==
  duplicate_channels(config.channels) \/ C18_ChannelMask
-----------------------------------------------------------------------------
(* PacketFactory.create as a consumer of its buffer.                       *)

(* A line matched as a valid data packet or as a channel report.           *)
matched(line) ==
  /\ line.kind # "blank"
  /\ \/ DATA_IDENTIFIER(line) /\ DATA_PATTERN(line) /\ ~_check_crc(line.bytes)
     \/ ~DATA_IDENTIFIER(line) /\ CHANNEL_IDENTIFIER(line) /\ PATTERNv12(line)

(* What C19 has an iteration of create do with the first line.             *)
Consumed ==
  /\ lines' = Tail(lines)
  /\ pc' = "create"
  /\ IF matched(lines[1])
       THEN Len(yielded') = Len(yielded) + 1
            /\ SubSeq(yielded', 1, Len(yielded)) = yielded
       ELSE yielded' = yielded

(* C19: every iteration of create removes the oldest line of the buffer,   *)
(* yields one record after those already yielded when the line is matched  *)
(* as a valid data packet or a channel report and nothing otherwise, and   *)
(* create ends when the buffer is empty.  The frequency error that is      *)
(* reported as fatal (C7) is left aside.                                   *)
C19_CreateConsumes ==
  [][/\ (pc = "create" /\ lines # <<>> /\ error' # ERR_RADIO) => Consumed
     /\ (pc = "create" /\ lines = <<>>) => pc' = "done"]_vars

(* The same for the iterations that raise no exception.                    *)
C19_CompletedSteps ==
  [][/\ (pc = "create" /\ lines # <<>> /\ pc' # "raised") => Consumed
     /\ (pc = "create" /\ lines = <<>>) => pc' = "done"]_vars

(* A data line followed by a channel report: one data record, then one     *)
(* channel record, and an empty buffer.                                    *)
C19_Example ==
  /\ pc = "done"
  /\ lines = <<>>
  /\ Len(yielded) = 2
  /\ "rain_count" \in DOMAIN yielded[1]
  /\ "freqError3" \in DOMAIN yielded[2]
-----------------------------------------------------------------------------
(* The decoding functions called on their own, on every input of a range:  *)
(* calc_wind_speed_ec on a raw speed and a raw angle, lookup_potential on  *)
(* a normalised raw value, and parse_raw on a rain rate message of the     *)
(* ISS.                                                                    *)

MaxMph == 155
MaxAngle == 255
MinNorm == 900
MaxNorm == 10200

Lookups == [SM_MAP |-> SM_MAP, LW_MAP |-> LW_MAP]

(* A rain rate message (type 5) of channel 1 with bytes 3 and 4.           *)
RainRateFrame(b3, b4) == <<80, 0, 0, b3, b4, 0, 0, 0>>

WindCalls ==
  {[fn |-> "calc_wind_speed_ec", args |-> <<mph, angle>>] :
     mph \in 0..MaxMph, angle \in 0..MaxAngle}

PotentialCalls ==
  {[fn |-> "lookup_potential", args |-> <<t, norm10>>] :
     t \in DOMAIN Lookups, norm10 \in MinNorm..MaxNorm}

RainRateCalls ==
  {[fn |-> "parse_raw", args |-> <<RainRateFrame(b3, b4)>>] :
     b3 \in 0..255, b4 \in 0..255}

CallWind ==
  /\ call.fn = "calc_wind_speed_ec"
  /\ pc = "start"
  /\ pc' = "done"
  /\ result' = [exc |-> "",
                value |-> calc_wind_speed_ec(call.args[1], call.args[2])]
  /\ UNCHANGED <<call, cfgVars, mgrVars, envVars, stats, transm_to_store,
                 last_rain_count, _last_pkt, lines, start_time, get_start,
                 time_last_received, packet, error, yielded, record, summary,
                 last, prev>>

CallPotential ==
  /\ call.fn = "lookup_potential"
  /\ pc = "start"
  /\ pc' = "done"
  /\ result' = [exc |-> "",
                value |-> potential_of(call.args[2], Lookups[call.args[1]])]
  /\ UNCHANGED <<call, cfgVars, mgrVars, envVars, stats, transm_to_store,
                 last_rain_count, _last_pkt, lines, start_time, get_start,
                 time_last_received, packet, error, yielded, record, summary,
                 last, prev>>

CallParseRaw ==
  /\ call.fn = "parse_raw"
  /\ pc = "start"
  /\ pc' = "done"
  /\ LET r == parse_raw(channels, rain_per_tip, call.args[1])
     IN result' = [exc |-> r.exc, value |-> r.data]
  /\ UNCHANGED <<call, cfgVars, mgrVars, envVars, stats, transm_to_store,
                 last_rain_count, _last_pkt, lines, start_time, get_start,
                 time_last_received, packet, error, yielded, record, summary,
                 last, prev>>

InitCalls ==
  \E cfg \in LoopConfigs :
    /\ DriverFields(cfg, StartTime)
    /\ NoManager
    /\ result = NoResult
    /\ \/ call \in WindCalls
       \/ call \in PotentialCalls
       \/ call \in RainRateCalls

NextCalls == CallWind \/ CallPotential \/ CallParseRaw

SpecCalls == InitCalls /\ [][NextCalls]_vars
-----------------------------------------------------------------------------
(* The wind speed correction as the table defines it.                      *)

SpeedRows == 1..(Len(windtab) - 1)
AngleCols == 1..(Len(windtab[1]) - 1)

(* The rows that bracket a speed and the columns that bracket an angle: an *)
(* exact value is its own bracket, a value before the first entry is       *)
(* bracketed by the first entry.                                           *)
row_below(mph) ==
  CHOOSE s \in SpeedRows :
    /\ (WT(s, 0) <= mph \/ s = 1)
    /\ \A t \in SpeedRows : (WT(t, 0) <= mph) => t <= s
row_above(mph) ==
  CHOOSE s \in SpeedRows :
    /\ WT(s, 0) >= mph
    /\ \A t \in SpeedRows : (WT(t, 0) >= mph) => t >= s
col_below(angle) ==
  CHOOSE a \in AngleCols :
    /\ (WT(0, a) <= angle \/ a = 1)
    /\ \A b \in AngleCols : (WT(0, b) <= angle) => b <= a
col_above(angle) ==
  CHOOSE a \in AngleCols :
    /\ WT(0, a) >= angle
    /\ \A b \in AngleCols : (WT(0, b) >= angle) => b >= a

(* The angle folded about the west-east axis.                              *)
folded(raw_angle) == IF raw_angle > 128 THEN 256 - raw_angle ELSE raw_angle

(* speed + the bilinear interpolation of the correction over the cell      *)
(* (s0..s1, a0..a1) at (mph, angle), the point kept inside the cell.       *)
bilinear(s0, s1, a0, a1, mph, angle) ==
  LET ds == IF s0 = s1 THEN 1 ELSE WT(s1, 0) - WT(s0, 0)
      da == IF a0 = a1 THEN 1 ELSE WT(0, a1) - WT(0, a0)
      t  == IF s0 = s1 THEN 0 ELSE mph - WT(s0, 0)
      u  == IF a0 = a1 \/ angle < WT(0, a0) THEN 0 ELSE angle - WT(0, a0)
  IN Frac(mph * ds * da
            + (ds - t) * (da - u) * WT(s0, a0) + (ds - t) * u * WT(s0, a1)
            + t * (da - u) * WT(s1, a0) + t * u * WT(s1, a1),
          ds * da)

corrected_speed(mph, raw_angle) ==
  bilinear(row_below(mph), row_above(mph),
           col_below(folded(raw_angle)), col_above(folded(raw_angle)),
           mph, folded(raw_angle))

WindReturned == call.fn = "calc_wind_speed_ec" /\ pc = "done"

(* C21: for a raw speed in 3..150 and a raw direction in 0..255 the value  *)
(* returned is the raw speed plus the bilinear interpolation of the        *)
(* correction over the cell that brackets (speed, folded angle), without   *)
(* extrapolation beyond the cell.                                          *)
C21_Bilinear ==
  (WindReturned /\ call.args[1] \in 3..150 /\ call.args[2] \in 0..255)
    => result.value = corrected_speed(call.args[1], call.args[2])

(* The folded angle is a column of the table and the speed is strictly     *)
(* between two rows.                                                       *)
column_between_rows(mph, raw_angle) ==
  /\ col_below(folded(raw_angle)) = col_above(folded(raw_angle))
  /\ row_below(mph) # row_above(mph)

(* The same where the folded angle is not an exact column between two      *)
(* rows and is not before the first column.                                *)
C21_OtherCells ==
  (WindReturned /\ call.args[1] \in 3..150 /\ call.args[2] \in 0..255
     /\ ~column_between_rows(call.args[1], call.args[2])
     /\ folded(call.args[2]) >= WT(0, 1))
    => result.value = corrected_speed(call.args[1], call.args[2])

on_grid(mph, raw_angle) ==
  /\ \E s \in SpeedRows : WT(s, 0) = mph
  /\ \E a \in AngleCols : WT(0, a) = folded(raw_angle)

(* C22: for a raw speed that is a row of the table and a folded angle that *)
(* is a column, the value returned is the speed plus the entry of the      *)
(* table, and the value for an angle above 128 is the value for 256 minus  *)
(* the angle.                                                              *)
C22_GridPoints ==
  WindReturned
    => /\ on_grid(call.args[1], call.args[2])
            => result.value =
                 <<call.args[1] + WT(row_below(call.args[1]),
                                      col_below(folded(call.args[2]))), 1>>
       /\ (call.args[2] > 128 /\ call.args[2] <= 255)
            => result.value = calc_wind_speed_ec(call.args[1],
                                                 256 - call.args[2])

(* A grid point with a correction that is not 0, at an angle above 128.    *)
C22_Witness ==
  /\ WindReturned
  /\ on_grid(call.args[1], call.args[2])
  /\ call.args[2] > 128
  /\ result.value # <<call.args[1], 1>>
-----------------------------------------------------------------------------
(* lookup_potential against its table.                                     *)

PotentialReturned == call.fn = "lookup_potential" /\ pc = "done"

SeqMin(q) == CHOOSE m \in {q[i] : i \in DOMAIN q} : \A i \in DOMAIN q : m <= q[i]
SeqMax(q) == CHOOSE m \in {q[i] : i \in DOMAIN q} : \A i \in DOMAIN q : m >= q[i]

(* The fraction v is the value at norm10 of the line through the entries x *)
(* and x + 1 of the table.                                                 *)
on_segment(v, norm10, lookup, x) ==
  v[1] * (lookup.RAW[x + 1] - lookup.RAW[x])
    = v[2] * (lookup.POT[x] * (lookup.RAW[x + 1] - lookup.RAW[x])
              + (norm10 - lookup.RAW[x]) * (lookup.POT[x + 1] - lookup.POT[x]))

potential_as_claimed(v, norm10, lookup) ==
  LET n == Len(lookup.RAW)
  IN /\ v[2] > 0
     /\ norm10 < lookup.RAW[1] => v = <<lookup.POT[1], 1>>
     /\ norm10 >= lookup.RAW[n] => v = <<lookup.POT[n], 1>>
     /\ \A x \in 1..(n - 1) :
          (lookup.RAW[x] <= norm10 /\ norm10 < lookup.RAW[x + 1])
            => on_segment(v, norm10, lookup, x)
     /\ SeqMin(lookup.POT) * v[2] <= v[1]
     /\ v[1] <= SeqMax(lookup.POT) * v[2]

(* C23: lookup_potential returns the first potential of its table below    *)
(* the first raw entry, the last potential from the last raw entry on, and *)
(* between two entries the linear interpolation of their potentials; the   *)
(* value is between the smallest and the largest potential of the table.   *)
C23_Potential ==
  PotentialReturned
    => potential_as_claimed(result.value, call.args[2], Lookups[call.args[1]])

(* An interpolated value of the soil moisture table and a clamped value of *)
(* the leaf wetness table.                                                 *)
C23_Witness ==
  /\ PotentialReturned
  /\ \/ call.args[1] = "SM_MAP" /\ result.value[2] # 1
     \/ call.args[1] = "LW_MAP" /\ call.args[2] > LW_MAP.RAW[Len(LW_MAP.RAW)]
-----------------------------------------------------------------------------
(* The rain rate message.                                                  *)

RainRateReturned == call.fn = "parse_raw" /\ pc = "done"

(* The 10-bit time between tips of a rain rate message.                    *)
tips_raw(pkt) == ((pkt[5] % 64) \div 16) * 256 + pkt[4]

light_rain(pkt) == (pkt[5] \div 64) % 2 = 1

(* The rain rate as C30 has it, in micrometre/h: none when the time is     *)
(* 0x3FF, else 3600 / seconds * rain_per_tip, the seconds being raw / 16   *)
(* for heavy rain and raw for light rain.                                  *)
rate_as_claimed(v, pkt) ==
  IF tips_raw(pkt) = 1023 THEN v = <<0, 1>>
  ELSE v = Frac(3600 * rain_per_tip * (IF light_rain(pkt) THEN 1 ELSE 16),
                tips_raw(pkt))

(* C30: the decoding of a rain rate message of the ISS raises nothing and  *)
(* gives the rain rate of the time between tips, for every value of the    *)
(* bytes 3 and 4.                                                          *)
C30_RainRate ==
  RainRateReturned
    => /\ result.exc = ""
       /\ "rain_rate" \in DOMAIN result.value
       /\ rate_as_claimed(result.value.rain_rate, call.args[1])

(* The same for a time between tips that is not 0.                         *)
C30_TimeNotZero ==
  (RainRateReturned /\ tips_raw(call.args[1]) # 0)
    => /\ result.exc = ""
       /\ "rain_rate" \in DOMAIN result.value
       /\ rate_as_claimed(result.value.rain_rate, call.args[1])
-----------------------------------------------------------------------------
(* The statistics between and at the archive events.                       *)

(* C24: in every state of the statistics, a slot with count > 0 has        *)
(* missed = max_count - count.                                             *)
C24_Missed ==
  \A st \in {stats, summary.stats} :
    \A i \in 1..4 :
      st.count[i] > 0 => st.missed[i] = st.max_count[i] - st.count[i]

(* An archive event has counted messages in a slot and missed others.      *)
C24_Witness ==
  /\ summary.n > 1
  /\ \E i \in 1..4 : stats.count[i] > 0 /\ stats.missed[i] > 0
  /\ \E i \in 1..4 : stats.count[i] > 0 /\ stats.missed[i] < 0

(* The statistics after the rollover of an archive event, out being those  *)
(* _update_summaries computed.                                             *)
RolledOver(st, out) ==
  /\ st.last_ts = st.curr_ts
  /\ st.last_cnt = st.curr_cnt
  /\ st.pct_good = <<Unset, Unset, Unset, Unset>>
  /\ st.pct_good_all = Unset
  /\ st.curr_ts = out.curr_ts
  /\ st.curr_cnt = out.curr_cnt
  /\ st.max_count = out.max_count
  /\ st.count = out.count
  /\ st.missed = out.missed

(* C25: after every archive event last_ts is curr_ts, last_cnt is          *)
(* curr_cnt, every pct_good and pct_good_all are unset, and the rollover   *)
(* has left curr_cnt, max_count, count and missed as they were computed.   *)
C25_Rollover ==
  [][ArchiveEvent => RolledOver(stats', summary'.stats)]_vars

(* The same for the archive events that _update_summaries completes.       *)
C25_RolloverCompleted ==
  [][(ArchiveEvent /\ summary'.exc = "")
       => RolledOver(stats', summary'.stats)]_vars

(* C29: _update_summaries never reads loop_times outside its 9 entries.    *)
C29_LoopTimeIndex ==
  summary.exc # "IndexError" /\ error # "IndexError"

(* The same when only the slots of configured transmitters count messages. *)
C29_ActiveSlotsOnly ==
  (\E i \in 1..4 : ~Tracked(stats, i) /\ stats.curr_cnt[i] > 0)
    \/ C29_LoopTimeIndex
-----------------------------------------------------------------------------
(* Wind readings and the wind channel.                                     *)

(* C26: a reading that holds a wind speed or a wind direction was decoded  *)
(* from a packet of the wind channel: the anemometer channel when one is   *)
(* configured, otherwise the ISS channel.                                  *)
C26_WindChannelOnly ==
  (/\ GoodDataLine /\ last.exc = "" /\ last.emitted
   /\ {"wind_speed", "wind_dir"} \cap DOMAIN last.pkt # {})
    => LastChannel = channels.wind_channel

(* The readings of the wind channel are those with wind.                   *)
C26_WindChannelHasWind ==
  (/\ GoodDataLine /\ last.exc = "" /\ last.emitted
   /\ LastChannel = channels.wind_channel
   /\ last.line.bytes[3] \notin {0, 255})
    => {"wind_speed", "wind_dir"} \subseteq DOMAIN last.pkt
-----------------------------------------------------------------------------
(* The time of the last record against the lines the loop handles.         *)

(* The loop takes the first line of the buffer and raises no exception.    *)
LineHandled ==
  /\ pc = "create" /\ lines # <<>>
  /\ lines' = Tail(lines)
  /\ pc' # "raised"

(* C28: every line that is matched as a data packet or as a channel        *)
(* report and is handled without an exception sets the time of the last    *)
(* record to the time it is handled at, in every band and for every        *)
(* transmitter a channel report names, so that the stalled error needs     *)
(* more than 150 s without such a line.                                    *)
C28_MatchedLineResets ==
  [][(LineHandled /\ matched(lines[1])) => time_last_received' = now]_vars

(* The lines that yield a record with a value reset the time, and no       *)
(* other line does.                                                        *)
C28_RecordResets ==
  [][LineHandled =>
       IF Truthy(last'.pkt) THEN time_last_received' = now
       ELSE time_last_received' = time_last_received]_vars
-----------------------------------------------------------------------------
(* The read loop in the EU band across the end of a two-day slot: the loop *)
(* is entered shortly before the slot of the first transmitter ends, and   *)
(* the receiver sends a data line and channel reports of two transmitters. *)

MaxRotateLines == 2
RotateLead == 20
RotateSpan == 40
RotateStart == 3 * 3600 + periodShowOneTransm - RotateLead
RotateHorizon == RotateStart + RotateSpan

RotateConfigs ==
  {[channels |-> ch, frequency |-> "EU", bucket_type |-> 1,
    save_pct_good_per_transmitter |-> FALSE] : ch \in {ChISS, ChAll}}

RotateLines ==
  {DataLine(RainFrame(5), <<7, 0, 0, 0>>),
   ChanLine(3, 431, 0),
   ChanLine(3, 431, 1)}

InitRotate == \E cfg \in RotateConfigs : DriverInit(cfg, RotateStart)

TickRotate == \E d \in TickSteps : Tick(d, MaxHold, RotateHorizon)

NextRotate ==
  \/ DriverStep
  \/ \E l \in RotateLines : ProcWrite(l, MaxRotateLines, MaxQueue)
  \/ ProcExit
  \/ TickRotate

SpecRotate == InitRotate /\ [][NextRotate]_vars

(* The transmitter of the two-day slot that time t lies in.                *)
slot_transmitter(t) == stats.activeTrIds[rel_transm_to_store(t, tr_count) + 1]

(* C27: while the read loop runs, transm_to_store is the id of an active   *)
(* transmitter, and every line the loop handles is handled with the        *)
(* transmitter of the two-day slot of that time: the transmitter changes   *)
(* to the next active one when the time crosses the end of a slot.         *)
C27_Rotation ==
  /\ [](pc \notin {"start", "raised"} => transm_to_store # NOT_ACTIVE)
  /\ [][(pc = "create" /\ lines # <<>> /\ lines' = Tail(lines))
          => transm_to_store = slot_transmitter(now)]_vars

(* The transmitter is chosen when the loop is entered, for the slot of     *)
(* that time, it is an active one, and it stays the same while the loop    *)
(* runs.                                                                   *)
C27_ChosenAtEntry ==
  /\ [](pc \notin {"start", "raised"} => transm_to_store # NOT_ACTIVE)
  /\ [][(pc = "start" /\ pc' # "start")
          => transm_to_store' = slot_transmitter(now)]_vars
  /\ [][pc # "start" => transm_to_store' = transm_to_store]_vars
====
